---- MODULE Spec2Model ----
(***************************************************************************)
(* Model of the animation pipeline of go-3d (pkg/animation.go), of the     *)
(* example driver (main) and of Renderer.SaveToPNG.                        *)
(*                                                                         *)
(* One AnimationGenerator is driven through a bounded number of top-level  *)
(* calls (Generate, GenerateFramesOnly, the example main).  The main       *)
(* goroutine, the worker goroutines and the progress goroutine of          *)
(* generateFramesMultiThread are separate processes that interleave.       *)
(* The environment (MkdirAll, the PNG write, the ffmpeg probe, the ffmpeg  *)
(* run, RemoveAll) succeeds or fails nondeterministically.                 *)
(*                                                                         *)
(* The operations of the library the frame callback is built from          *)
(* (Scene.Render, ...) have specifications of their own further down; the  *)
(* pipeline is at rest in them.                                            *)
(***************************************************************************)
EXTENDS Integers, Sequences, FiniteSets, Bags, TLC

\* ------------------------------------------------------------------ bounds
MaxFPS == 2
MaxDurQ == 4
MaxWorkers == 2
MaxRuns == 2
MaxObjects == 2
MaxLights == 2
MaxTris == 3
MaxKeyframes == 3
MaxMeshLen == 2

\* Duration is a float64; the model draws it from the multiples of 1/DurDen
\* seconds, which float64 represents exactly, so float64(FPS)*Duration is the
\* exact product FPS*DurQ/DurDen.
DurDen == 4

\* Worker count the example main configures for the MP4 path.
MainWorkers == 5

\* Config.FPS is an int: the model draws it from -1..MaxFPS.
FPSValues == (0 - 1)..MaxFPS

DefaultTempDir == "temp_frames"
MainOutputDir == "animation_frames"
OutputDirs == {MainOutputDir}
EncoderOutputs == {"ffmpeg: no such file", "ffmpeg: invalid data"}

VARIABLES
  Config,          \* ag.Config: FPS, DurQ (Duration*DurDen), Workers, CleanupTemp, TempDir
  pc,              \* position of the calling goroutine
  api,             \* top-level call in progress: "none", "Generate", "FramesOnly"
  viaMain,         \* the call was made by the example main
  probe,           \* result of CheckFFmpeg in main ("none" when main did not run)
  runs,            \* number of top-level calls started
  originalTempDir, \* local of GenerateFramesOnly
  cleanupAtCall,   \* Config.CleanupTemp when GenerateFramesOnly was entered
  outputDir,       \* argument of GenerateFramesOnly
  totalFrames,     \* local of GenerateFrames
  frame,           \* loop variable of the single-thread loop / of the dispatcher
  gfErr,           \* value returned by GenerateFrames
  ret,             \* value returned by the top-level call
  jobs, jobsClosed,         \* chan int, capacity totalFrames
  errors,                   \* chan error, capacity workers
  progress, progressClosed, \* chan int, capacity totalFrames (number of queued signals)
  wpc, wframe,              \* per worker: position, frame taken from the queue
  ppc, completed,           \* progress goroutine: position, counter
  dirs, files,              \* file system: directories, frame files <<dir, name>>
  calls,           \* bag of <<frame, t>>: render callback invocations of this run
  saves,           \* bag of <<frame, path>>: SaveToPNG invocations of this run
  written,         \* set of <<frame, path>>: PNG files written by this run
  recvd,           \* bag of frames received from the job queue in this run
  runFailed,       \* a PNG write failed during this run
  encoderCalls,    \* ffmpeg invocations of this run
  removeCalls,     \* os.RemoveAll invocations of this run
  encoderSaw,      \* frame files present in TempDir when ffmpeg was started
  videoMade,       \* ffmpeg wrote the output file in this run
  encoderOutput,   \* combined output of the ffmpeg process of this run
  removeFailed,    \* os.RemoveAll returned an error in this run
  live,            \* drawing surfaces not yet destroyed: <<owner, frame>>, owner 0
                   \* is the calling goroutine, owner w > 0 is worker w
  released,        \* bag of frames whose surface was destroyed in this run
  rstate,          \* for each live renderer: its state when the callback got
                   \* it (given) and when the callback returned (now)
  hist             \* per mode ("single", "multi"): outcome of the last GenerateFrames

pipeVars == <<Config, pc, api, viaMain, probe, runs, originalTempDir,
          cleanupAtCall, outputDir,
          totalFrames, frame, gfErr, ret, jobs, jobsClosed, errors, progress,
          progressClosed, wpc, wframe, ppc, completed, dirs, files,
          calls, saves, written, recvd, runFailed, encoderCalls,
          removeCalls, encoderSaw, videoMade, encoderOutput, removeFailed,
          live, released, rstate, hist>>

VARIABLES
  \* Scene.Render on one renderer
  scObjects,       \* Scene.Objects
  scLights,        \* Scene.Lights
  scBackground,    \* Scene.Background ("nil" when none is set)
  rLights,         \* Renderer.Lights
  rLightsBefore,   \* Renderer.Lights as they were when Scene.Render was entered
  scPc,            \* position in Scene.Render
  scIdx,           \* loop index over Scene.Objects
  scDrawn          \* Render calls received by the background and the objects

sceneVars == <<scObjects, scLights, scBackground, rLights, rLightsBefore,
               scPc, scIdx, scDrawn>>

VARIABLES
  \* Renderer.DrawMesh / DrawMeshWithGradient on one mesh
  drMesh,          \* mesh.Triangles
  drMode,          \* the drawing that was made: "none", "wireframe", "flat",
                   \* "shaded", "gradient"
  drOps,           \* the strokes and fills issued on the context, in order
  drLights,        \* Renderer.Lights of the drawing renderer
  drColor,         \* the colours passed to the drawing function
  drLit            \* the calls of CalculateLighting made by the drawing

drawVars == <<drMesh, drMode, drOps, drLights, drColor, drLit>>

VARIABLES
  \* ApplyCameraPath with an InterpolatedCameraPath
  camKeyframes,    \* InterpolatedCameraPath.Keyframes
  camT,            \* argument t of the last ApplyCameraPath
  camera,          \* renderer.Camera: Position, Target, FOV
  camPc            \* "new" until ApplyCameraPath has been called, then "applied"

camVars == <<camKeyframes, camT, camera, camPc>>

VARIABLES
  \* Mesh.Transform and Mesh.Merge
  meshM,           \* the receiver: Vertices, Triangles
  meshOther,       \* the argument of Merge
  meshOut,         \* the mesh returned by Transform
  meshMatrix,      \* the argument of Transform
  meshOp,          \* the call that was made: "none", "Transform", "Merge"
  meshMBefore,     \* the receiver as it was before the call
  meshOtherBefore  \* the argument of Merge as it was before the call

meshVars == <<meshM, meshOther, meshOut, meshMatrix, meshOp, meshMBefore,
              meshOtherBefore>>

VARIABLES
  \* Renderer.CalculateLighting
  ltLights,        \* Renderer.Lights: Position, Color, Intensity of each light
  ltArgs,          \* the arguments: position, normal, baseColor
  ltResult,        \* the colour returned
  ltPc             \* "new" until CalculateLighting has been called, then "done"

lightVars == <<ltLights, ltArgs, ltResult, ltPc>>

VARIABLES
  \* Vector3.Normalize on one vector
  nzV,             \* the vector
  nzOut,           \* the vector returned
  nzDivs,          \* the divisors of the divisions 1.0 / length performed
  nzPc             \* "new" before the call, "done" after it

normVars == <<nzV, nzOut, nzDivs, nzPc>>

VARIABLES
  \* one call of a primitive generator (CreateCube, CreateSphere, ...)
  prCall,          \* the generator called and its counts
  prMesh,          \* the mesh returned
  prPc             \* "new" before the call, "done" after its return, "panic"
                   \* when an index was out of range

primVars == <<prCall, prMesh, prPc>>

libVars == <<sceneVars, drawVars, camVars, meshVars, lightVars, normVars,
             primVars>>

vars == <<pipeVars, libVars>>

cfgVars == <<Config, api, viaMain, probe, runs, originalTempDir, cleanupAtCall,
            outputDir>>
chanVars == <<jobs, jobsClosed, errors, progress, progressClosed>>
workerVars == <<wpc, wframe>>
progVars == <<ppc, completed>>
fsVars == <<dirs, files>>
renderLog == <<calls, saves, written, recvd, runFailed, live, released,
              rstate>>
stageLog == <<encoderCalls, removeCalls, encoderSaw, videoMade, encoderOutput,
             removeFailed>>

WorkerIds == 1..MaxWorkers

\* ------------------------------------------------------------ error values
Err(kind, f, out) == [kind |-> kind, frame |-> f, output |-> out]
Nil == Err("nil", 0, "")

\* ---------------------------------------------------------- pure functions
\* int(x) for x = num/den: Go's float-to-int conversion truncates toward zero.
TruncDiv(num, den) == IF num >= 0 THEN num \div den ELSE -((-num) \div den)

Abs(x) == IF x >= 0 THEN x ELSE -x

\* The frame count had the product been rounded to the nearest integer
\* (halves away from zero).
RoundFrames(fps, durQ) ==
  LET r == (2 * Abs(fps * durQ) + DurDen) \div (2 * DurDen)
  IN IF fps * durQ >= 0 THEN r ELSE -r

\* totalFrames := int(float64(ag.Config.FPS) * ag.Config.Duration)
TotalFramesOf(fps, durQ) == TruncDiv(fps * durQ, DurDen)

MinOf(a, b) == IF a < b THEN a ELSE b

\* A worker count taken as configured.
EffectiveWorkersAsGiven(w) == w

\* workers := ag.Config.Workers; if workers < 1 { workers = 1 }
EffectiveWorkers(w) == IF w < 1 THEN 1 ELSE w

\* The values of Config.Workers a client sets: negative, zero, one and more.
WorkerCounts == (0 - 1)..MaxWorkers

RECURSIVE GCD(_, _)
GCD(a, b) == IF b = 0 THEN a ELSE GCD(b, a % b)

\* A float64 quotient of two small integers, as the fraction in lowest terms.
Frac(num, den) == LET g == GCD(num, den) IN <<num \div g, den \div g>>

NormTimeOffByOne(f, total) == Frac(f, total)

\* t := float64(frame-1) / float64(totalFrames)
NormTime(f, total) == Frac(f - 1, total)

RECURSIVE Digits(_)
Digits(n) == IF n < 10 THEN <<n>> ELSE Append(Digits(n \div 10), n % 10)

RECURSIVE ZeroPad(_, _)
ZeroPad(s, width) == IF Len(s) >= width THEN s ELSE ZeroPad(<<0>> \o s, width)

\* fmt.Sprintf("frame_%04d.png", frame)
FrameName(f) == [prefix |-> "frame_", num |-> ZeroPad(Digits(f), 4), ext |-> ".png"]

\* filepath.Join(ag.Config.TempDir, name)
FramePath(dir, f) == <<dir, FrameName(f)>>

\* Renderer.SaveToPNG: calls Surface.WriteToPNG, drops its status and returns nil.
SaveToPNG(writeOk) == Nil

\* fmt.Errorf("保存帧 %d 失败: %w", frame, err)
SaveError(f) == Err("save", f, "")

\* ------------------------------------------------------------------- state
NoResult == [set |-> FALSE, n |-> 0, map |-> {}, names |-> {}]

PipelineInit ==
  /\ Config \in [FPS : FPSValues, DurQ : 0..MaxDurQ, Workers : {1},
                 CleanupTemp : BOOLEAN, TempDir : {DefaultTempDir}]
  /\ pc = "idle" /\ api = "none" /\ viaMain = FALSE /\ probe = "none" /\ runs = 0
  /\ originalTempDir = DefaultTempDir /\ outputDir = DefaultTempDir
  /\ cleanupAtCall = Config.CleanupTemp
  /\ totalFrames = 0 /\ frame = 0 /\ gfErr = Nil /\ ret = Nil
  /\ jobs = <<>> /\ jobsClosed = FALSE /\ errors = <<>>
  /\ progress = 0 /\ progressClosed = FALSE
  /\ wpc = [w \in WorkerIds |-> "off"]
  /\ wframe = [w \in WorkerIds |-> 0]
  /\ ppc = "off" /\ completed = 0
  /\ dirs = {} /\ files = {}
  /\ calls = EmptyBag /\ saves = EmptyBag /\ written = {} /\ recvd = EmptyBag
  /\ runFailed = FALSE
  /\ encoderCalls = 0 /\ removeCalls = 0 /\ encoderSaw = {} /\ videoMade = FALSE
  /\ encoderOutput = "" /\ removeFailed = FALSE
  /\ live = {} /\ released = EmptyBag /\ rstate = <<>>
  /\ hist = [single |-> NoResult, multi |-> NoResult]

\* NewScene and NewRenderer: no objects, no lights, no background.
SceneNew ==
  /\ scObjects = <<>> /\ scLights = <<>> /\ scBackground = "nil"
  /\ rLights = <<>> /\ rLightsBefore = <<>>
  /\ scPc = "build" /\ scIdx = 0 /\ scDrawn = <<>>

\* NewMesh: no triangles; NewRenderer: no lights; nothing drawn.
DrawNew ==
  /\ drMesh = <<>> /\ drMode = "none" /\ drOps = <<>>
  /\ drLights = <<>> /\ drColor = <<>> /\ drLit = <<>>

\* ------------------------------------------------------- float64 values
\* A float64 is modelled as the fraction <<n, d>> in lowest terms with d > 0,
\* as <<1, 0>> / <<-1, 0>> for +Inf / -Inf and as <<0, 0>> for NaN.
NaN == <<0, 0>>

Sign(n) == IF n > 0 THEN 1 ELSE IF n < 0 THEN 0 - 1 ELSE 0

Norm(n, d) ==
  IF d = 0 THEN <<Sign(n), 0>>
  ELSE LET g == GCD(Abs(n), Abs(d))
           sg == Sign(d)
       IN <<(sg * n) \div g, (sg * d) \div g>>

Num(n) == <<n, 1>>

FAdd(a, b) ==
  IF a[2] = 0 /\ b[2] = 0
    THEN (IF a = b THEN a ELSE NaN)
    ELSE Norm(a[1] * b[2] + b[1] * a[2], a[2] * b[2])

FNeg(a) == <<0 - a[1], a[2]>>
FSub(a, b) == FAdd(a, FNeg(b))
FMul(a, b) == Norm(a[1] * b[1], a[2] * b[2])

\* a / b; x/0 is +Inf, -Inf or NaN, never a panic.
FDiv(a, b) ==
  IF a = NaN \/ b = NaN THEN NaN
  ELSE IF b[2] = 0 THEN (IF a[2] = 0 THEN NaN ELSE Norm(0, 1))
  ELSE IF b[1] = 0 THEN Norm(a[1], 0)
  ELSE Norm(a[1] * b[2] * Sign(b[1]), a[2] * Abs(b[1]))

\* Comparisons; every comparison with NaN is false.
FLess(a, b) ==
  /\ a # NaN /\ b # NaN
  /\ IF a[2] = 0 /\ b[2] = 0 THEN a[1] < b[1]
     ELSE a[1] * b[2] < b[1] * a[2]
FLeq(a, b) == a # NaN /\ b # NaN /\ (a = b \/ FLess(a, b))

\* Vector3 of float64.
FVec(x, y, z) == <<Num(x), Num(y), Num(z)>>
FScale(v, k) == <<FMul(v[1], k), FMul(v[2], k), FMul(v[3], k)>>
FVAdd(a, b) == <<FAdd(a[1], b[1]), FAdd(a[2], b[2]), FAdd(a[3], b[3])>>

\* n/10 and a colour of three such channels.
Tenths(n) == Norm(n, 10)
Color(r, g, b) == <<Tenths(r), Tenths(g), Tenths(b)>>

NewLight(pos, color, intensity) ==
  [Position |-> pos, Color |-> color, Intensity |-> intensity]

\* NewCamera: Position (0,0,-5), Target (0,0,0), Up (0,1,0), FOV 1.0,
\* Near 0.1, Far 100.
NewCamera == [Position |-> FVec(0, 0, 0 - 5), Target |-> FVec(0, 0, 0),
              Up |-> FVec(0, 1, 0), FOV |-> Num(1),
              Near |-> Tenths(1), Far |-> Num(100)]

\* No camera path in use.
CamNew ==
  /\ camKeyframes = <<>> /\ camT = Num(0) /\ camera = NewCamera
  /\ camPc = "new"

\* Identity().
Identity == <<Num(1), Num(0), Num(0), Num(0),
              Num(0), Num(1), Num(0), Num(0),
              Num(0), Num(0), Num(1), Num(0),
              Num(0), Num(0), Num(0), Num(1)>>

\* NewMesh(): no vertices, no triangles.
NewMesh == [Vertices |-> <<>>, Triangles |-> <<>>]

\* Two new meshes, no call made.
MeshNew ==
  /\ meshM = NewMesh /\ meshOther = NewMesh /\ meshOut = NewMesh
  /\ meshMatrix = Identity /\ meshOp = "none"
  /\ meshMBefore = NewMesh /\ meshOtherBefore = NewMesh

\* A renderer without lights; CalculateLighting not called.
LightNew ==
  /\ ltLights = <<>>
  /\ ltArgs = [position |-> FVec(0, 0, 0), normal |-> FVec(0, 1, 0),
               baseColor |-> FVec(1, 1, 1)]
  /\ ltResult = FVec(0, 0, 0) /\ ltPc = "new"

\* Normalize not called.
NormNew ==
  /\ nzV = FVec(0, 0, 0) /\ nzOut = FVec(0, 0, 0) /\ nzDivs = <<>>
  /\ nzPc = "new"

\* No generator called.
PrimNew ==
  /\ prCall = [kind |-> "none", counts |-> <<>>] /\ prMesh = NewMesh
  /\ prPc = "new"

LibNew ==
  /\ SceneNew /\ DrawNew /\ CamNew /\ MeshNew /\ LightNew /\ NormNew
  /\ PrimNew

Init == PipelineInit /\ LibNew

\* State of a fresh top-level call: the locals of the call (the channels and
\* goroutines of an earlier call are gone) and the per-run observation logs.
StartRun ==
  /\ runs' = runs + 1
  /\ pc' = "gf_entry"
  /\ totalFrames' = 0 /\ frame' = 0 /\ gfErr' = Nil /\ ret' = Nil
  /\ calls' = EmptyBag /\ saves' = EmptyBag /\ written' = {} /\ recvd' = EmptyBag
  /\ runFailed' = FALSE
  /\ encoderCalls' = 0 /\ removeCalls' = 0 /\ encoderSaw' = {} /\ videoMade' = FALSE
  /\ encoderOutput' = "" /\ removeFailed' = FALSE
  /\ live' = {} /\ released' = EmptyBag /\ rstate' = <<>>
  /\ jobs' = <<>> /\ jobsClosed' = FALSE /\ errors' = <<>>
  /\ progress' = 0 /\ progressClosed' = FALSE
  /\ wpc' = [w \in WorkerIds |-> "off"]
  /\ wframe' = [w \in WorkerIds |-> 0]
  /\ ppc' = "off" /\ completed' = 0
  /\ UNCHANGED <<libVars, fsVars, hist>>

\* ------------------------------------------------------- top-level entries
\* Generate, lines 228-230: entry, up to the call of GenerateFrames.  The
\* client sets Config.Workers = k on the generator before the call.
CallGenerate(k) ==
  /\ pc = "idle" /\ runs < MaxRuns /\ ~viaMain
  /\ Config' = [Config EXCEPT !.Workers = k]
  /\ api' = "Generate" /\ viaMain' = FALSE /\ probe' = "none"
  /\ UNCHANGED <<originalTempDir, cleanupAtCall, outputDir>>
  /\ StartRun

\* GenerateFramesOnly without the redirection of TempDir.
CallGenerateFramesOnlyNoRedirect(k, dir) ==
  /\ pc = "idle" /\ runs < MaxRuns /\ ~viaMain
  /\ originalTempDir' = Config.TempDir
  /\ cleanupAtCall' = Config.CleanupTemp
  /\ outputDir' = dir
  /\ Config' = [Config EXCEPT !.Workers = k, !.CleanupTemp = FALSE]
  /\ api' = "FramesOnly" /\ viaMain' = FALSE /\ probe' = "none"
  /\ StartRun

\* GenerateFramesOnly, lines 250-260: save TempDir, redirect it to outputDir,
\* clear CleanupTemp, register the deferred restore, call GenerateFrames.
CallGenerateFramesOnly(k, dir) ==
  /\ pc = "idle" /\ runs < MaxRuns /\ ~viaMain
  /\ originalTempDir' = Config.TempDir
  /\ cleanupAtCall' = Config.CleanupTemp
  /\ outputDir' = dir
  /\ Config' = [Config EXCEPT !.Workers = k, !.TempDir = dir, !.CleanupTemp = FALSE]
  /\ api' = "FramesOnly" /\ viaMain' = FALSE /\ probe' = "none"
  /\ StartRun

\* A main that starts the MP4 path whatever the probe says.
MainIgnoresProbe ==
  /\ pc = "idle" /\ runs = 0
  /\ \E found \in BOOLEAN :
       /\ probe' = IF found THEN "found" ELSE "absent"
       /\ viaMain' = TRUE
       /\ Config' = [FPS |-> Config.FPS, DurQ |-> Config.DurQ,
                     Workers |-> MinOf(MainWorkers, MaxWorkers),
                     CleanupTemp |-> TRUE, TempDir |-> DefaultTempDir]
       /\ api' = "Generate"
       /\ UNCHANGED <<originalTempDir, cleanupAtCall, outputDir>>
  /\ StartRun

\* main: probe ffmpeg; absent -> generateFrames() (default config, Workers = 1,
\* GenerateFramesOnly("animation_frames")); found -> generateMP4Animation()
\* (default config, Workers = 5, Generate).  main is the entry of its own
\* process: it builds the generator, makes the one call and exits.  FPS and
\* Duration stay the bounded ones and the worker count is capped at MaxWorkers.
Main ==
  /\ pc = "idle" /\ runs = 0
  /\ \E found \in BOOLEAN :
       /\ probe' = IF found THEN "found" ELSE "absent"
       /\ viaMain' = TRUE
       /\ IF found
            THEN /\ Config' = [FPS |-> Config.FPS, DurQ |-> Config.DurQ,
                               Workers |-> MinOf(MainWorkers, MaxWorkers),
                               CleanupTemp |-> TRUE, TempDir |-> DefaultTempDir]
                 /\ api' = "Generate"
                 /\ UNCHANGED <<originalTempDir, cleanupAtCall, outputDir>>
            ELSE /\ Config' = [FPS |-> Config.FPS, DurQ |-> Config.DurQ,
                               Workers |-> 1,
                               CleanupTemp |-> FALSE, TempDir |-> MainOutputDir]
                 /\ api' = "FramesOnly"
                 /\ originalTempDir' = DefaultTempDir
                 /\ cleanupAtCall' = TRUE
                 /\ outputDir' = MainOutputDir
  /\ StartRun

\* ---------------------------------------------------------- GenerateFrames
\* A GenerateFrames that notes the MkdirAll error and goes on to render.
GenerateFramesIgnoresMkdir ==
  /\ pc = "gf_entry"
  /\ \E mkdirOk \in BOOLEAN :
       /\ gfErr' = IF mkdirOk THEN gfErr ELSE Err("mkdir", 0, "")
       /\ dirs' = IF mkdirOk THEN dirs \cup {Config.TempDir} ELSE dirs
       /\ totalFrames' = TotalFramesOf(Config.FPS, Config.DurQ)
       /\ frame' = 1
       /\ pc' = IF EffectiveWorkers(Config.Workers) = 1
                  THEN "st_loop" ELSE "mt_spawn"
  /\ UNCHANGED <<libVars, cfgVars, ret, chanVars, workerVars, progVars, files,
                 renderLog, stageLog, hist>>

\* GenerateFrames, lines 64-86.
GenerateFrames ==
  /\ pc = "gf_entry"
  /\ \E mkdirOk \in BOOLEAN :
       IF ~mkdirOk
         THEN /\ gfErr' = Err("mkdir", 0, "")
              /\ pc' = "gf_ret"
              /\ UNCHANGED <<totalFrames, frame, dirs>>
         ELSE /\ dirs' = dirs \cup {Config.TempDir}
              /\ totalFrames' = TotalFramesOf(Config.FPS, Config.DurQ)
              /\ frame' = 1
              /\ pc' = IF EffectiveWorkers(Config.Workers) = 1
                         THEN "st_loop" ELSE "mt_spawn"
              /\ UNCHANGED gfErr
  /\ UNCHANGED <<libVars, cfgVars, ret, chanVars, workerVars, progVars, files,
                 renderLog, stageLog, hist>>

\* The fields NewRenderer sets: a NewCamera(), an empty light list,
\* RenderWireframe; the surface is cleared, nothing is drawn on it.
NewRendererState ==
  [Camera |-> NewCamera, Lights |-> <<>>, RenderMode |-> "wireframe",
   Drawn |-> <<>>]

\* The vector setupDynamicCamera makes of the integer vector v at time t: v
\* turned about X by 1.5*pi*t, then about Y by 2*pi*t, then about Z by pi*t.
\* At t = 0 every cosine is 1 and every sine is 0 and the result is v.  At
\* every other t of a run (0 < t < 1) the coordinates are sums of products of
\* sines and cosines that no fraction equals; coordinate k is then kept as
\* the term <<k, v[1], v[2], v[3], n, d>> for t = n/d.
Rotated(v, t) ==
  IF t = Num(0) THEN FVec(v[1], v[2], v[3])
  ELSE [k \in 1..3 |-> <<k, v[1], v[2], v[3], t[1], t[2]>>]

\* setupDynamicCamera: the camera on the sphere of radius 20 about the
\* origin, looking at the origin, Up turned with it, FOV 0.75.
setupDynamicCamera(r, t) ==
  [r EXCEPT !.Camera = [@ EXCEPT !.Position = Rotated(<<0, 0, 20>>, t),
                                 !.Target = FVec(0, 0, 0),
                                 !.Up = Rotated(<<0, 1, 0>>, t),
                                 !.FOV = Norm(3, 4)]]

\* The scene renderFrame builds: a gradient background, the solar system and
\* the coordinate system; NewScene() has no lights and none is added.
FrameScene ==
  [Lights |-> <<>>, Background |-> "gradient",
   Objects |-> <<"solarSystem", "coordSystem">>]

\* Scene.Render(renderer, t) on renderer r: renderer.Lights = s.Lights, then
\* the background, when one is set, and every object draw on the renderer at
\* time t.
SceneRenderOn(scene, r, t) ==
  [r EXCEPT !.Lights = scene.Lights,
            !.Drawn = @ \o (IF scene.Background # "nil"
                              THEN <<[who |-> scene.Background, t |-> t]>>
                              ELSE <<>>)
                        \o [i \in 1..Len(scene.Objects) |->
                              [who |-> scene.Objects[i], t |-> t]]]

\* renderFrame, the callback of the example program, on renderer r: the
\* camera of time t, two lights, shaded mode, then the scene rendered at
\* 3 * t.  The frame number is not used.
renderFrame(r, f, t) ==
  LET light1 == NewLight(FVec(0 - 5, 8, 0 - 5), Color(10, 9, 8), Tenths(8))
      light2 == NewLight(FVec(5, 5, 5), Color(6, 7, 10), Tenths(6))
      r1 == setupDynamicCamera(r, t)
      r2 == [r1 EXCEPT !.Lights = Append(Append(@, light1), light2)]
      r3 == [r2 EXCEPT !.RenderMode = "shaded"]
  IN SceneRenderOn(FrameScene, r3, FMul(t, Num(3)))

\* A NewRenderer that hands out the state of a renderer still in use.
NewRendererShared(owner, f, t) ==
  LET given == IF live = {} THEN NewRendererState
               ELSE rstate[CHOOSE id \in live : TRUE].now
  IN /\ live' = live \cup {<<owner, f>>}
     /\ rstate' = [id \in live \cup {<<owner, f>>} |->
                     IF id = <<owner, f>>
                       THEN [given |-> given, now |-> renderFrame(given, f, t)]
                       ELSE rstate[id]]

\* NewRenderer: a new image surface and context with the fields of
\* NewRendererState, owned by the goroutine that renders frame f, followed by
\* the callback on it at time t.
NewRenderer(owner, f, t) ==
  /\ live' = live \cup {<<owner, f>>}
  /\ rstate' = [id \in live \cup {<<owner, f>>} |->
                  IF id = <<owner, f>>
                    THEN [given |-> NewRendererState,
                          now |-> renderFrame(NewRendererState, f, t)]
                    ELSE rstate[id]]

\* A Destroy that leaves the surface allocated.
DestroyLeaks(owner, f) == UNCHANGED <<live, released, rstate>>

\* Renderer.Destroy: Context.Destroy() and Surface.Destroy().
Destroy(owner, f) ==
  /\ live' = live \ {<<owner, f>>}
  /\ rstate' = [id \in live \ {<<owner, f>>} |-> rstate[id]]
  /\ released' = released (+) SetToBag({f})

\* The PNG write of one SaveToPNG call: the file appears when the write
\* succeeds.
WriteFile(path, f, writeOk) ==
  /\ files' = IF writeOk THEN files \cup {path} ELSE files
  /\ written' = IF writeOk THEN written \cup {<<f, path>>} ELSE written
  /\ runFailed' = (runFailed \/ ~writeOk)
  /\ saves' = saves (+) SetToBag({<<f, path>>})
  /\ UNCHANGED dirs

\* generateFramesSingleThread, lines 91-98: loop test, t, NewRenderer, callback.
ST_Render ==
  /\ pc = "st_loop" /\ frame <= totalFrames
  /\ NewRenderer(0, frame, NormTime(frame, totalFrames))
  /\ calls' = calls (+) SetToBag({<<frame, NormTime(frame, totalFrames)>>})
  /\ pc' = "st_save"
  /\ UNCHANGED <<libVars, cfgVars, totalFrames, frame, gfErr, ret, chanVars, workerVars,
                 progVars, fsVars, saves, written, recvd, runFailed, released,
                 stageLog, hist>>

\* generateFramesSingleThread, lines 100-113: save, Destroy, error return or
\* next iteration.
ST_Save ==
  /\ pc = "st_save"
  /\ \E writeOk \in BOOLEAN :
       LET path == FramePath(Config.TempDir, frame)
           err == SaveToPNG(writeOk)
       IN /\ WriteFile(path, frame, writeOk)
          /\ Destroy(0, frame)
          /\ IF err # Nil
               THEN /\ gfErr' = SaveError(frame)
                    /\ pc' = "gf_ret"
                    /\ UNCHANGED frame
               ELSE /\ frame' = frame + 1
                    /\ pc' = "st_loop"
                    /\ UNCHANGED gfErr
  /\ UNCHANGED <<libVars, cfgVars, totalFrames, ret, chanVars, workerVars, progVars,
                 calls, recvd, stageLog, hist>>

\* generateFramesSingleThread, lines 114-115: loop exit, return nil.
ST_Done ==
  /\ pc = "st_loop" /\ frame > totalFrames
  /\ gfErr' = Nil
  /\ pc' = "gf_ret"
  /\ UNCHANGED <<libVars, cfgVars, totalFrames, frame, ret, chanVars, workerVars,
                 progVars, fsVars, renderLog, stageLog, hist>>

\* The configuration once a panic has left the top-level call: the deferred
\* function of GenerateFramesOnly (lines 256-258) runs while the panic
\* unwinds and puts TempDir back; Generate defers nothing.
Unwound ==
  IF api = "FramesOnly" THEN [Config EXCEPT !.TempDir = originalTempDir]
  ELSE Config

\* generateFramesMultiThread, lines 119-175: make the channels, start the
\* workers and the progress goroutine.  All of them block on their first
\* receive until the dispatcher sends.  make(chan int, totalFrames) panics
\* for a negative totalFrames; the panic unwinds through the callers, running
\* their deferred functions, and the process ends there.
MT_Spawn ==
  /\ pc = "mt_spawn"
  /\ jobs' = <<>> /\ jobsClosed' = FALSE /\ errors' = <<>>
  /\ progress' = 0 /\ progressClosed' = FALSE
  /\ wframe' = [w \in WorkerIds |-> 0]
  /\ completed' = 0
  /\ IF totalFrames < 0
       THEN /\ pc' = "panic"
            /\ Config' = Unwound
            /\ UNCHANGED <<wpc, ppc>>
       ELSE /\ wpc' = [w \in WorkerIds |->
                        IF w <= EffectiveWorkers(Config.Workers) THEN "recv" ELSE "off"]
            /\ ppc' = "loop"
            /\ pc' = "mt_dispatch"
            /\ UNCHANGED Config
  /\ UNCHANGED <<libVars, api, viaMain, probe, runs, originalTempDir,
                 cleanupAtCall, outputDir, totalFrames, frame, gfErr, ret,
                 fsVars, renderLog, stageLog, hist>>

\* generateFramesMultiThread, lines 178-180: jobs <- frame (buffered send).
MT_Dispatch ==
  /\ pc = "mt_dispatch" /\ frame <= totalFrames
  /\ Len(jobs) < totalFrames
  /\ jobs' = Append(jobs, frame)
  /\ frame' = frame + 1
  /\ UNCHANGED <<libVars, cfgVars, pc, totalFrames, gfErr, ret, jobsClosed, errors,
                 progress, progressClosed, workerVars, progVars, fsVars,
                 renderLog, stageLog, hist>>

\* A dispatcher that goes on to wg.Wait() without closing jobs.
MT_CloseJobsForgets ==
  /\ pc = "mt_dispatch" /\ frame > totalFrames
  /\ pc' = "mt_wait"
  /\ UNCHANGED <<libVars, cfgVars, totalFrames, frame, gfErr, ret, jobs, jobsClosed,
                 errors, progress, progressClosed, workerVars, progVars, fsVars,
                 renderLog, stageLog, hist>>

\* generateFramesMultiThread, line 181: close(jobs).
MT_CloseJobs ==
  /\ pc = "mt_dispatch" /\ frame > totalFrames
  /\ jobsClosed' = TRUE
  /\ pc' = "mt_wait"
  /\ UNCHANGED <<libVars, cfgVars, totalFrames, frame, gfErr, ret, jobs, errors,
                 progress, progressClosed, workerVars, progVars, fsVars,
                 renderLog, stageLog, hist>>

\* generateFramesMultiThread, lines 184-186: wg.Wait(), close(progress),
\* close(errors).
MT_Join ==
  /\ pc = "mt_wait"
  /\ \A w \in WorkerIds : wpc[w] \in {"off", "done"}
  /\ progressClosed' = TRUE
  /\ pc' = "mt_done"
  /\ UNCHANGED <<libVars, cfgVars, totalFrames, frame, gfErr, ret, jobs, jobsClosed,
                 errors, progress, workerVars, progVars, fsVars, renderLog,
                 stageLog, hist>>

\* generateFramesMultiThread, lines 189-196, with line 174 of the progress
\* goroutine: the rendezvous on the unbuffered done channel, then the error
\* check.
MT_Finish ==
  /\ pc = "mt_done" /\ ppc = "senddone"
  /\ ppc' = "exit"
  /\ gfErr' = IF Len(errors) > 0 THEN Head(errors) ELSE Nil
  /\ pc' = "gf_ret"
  /\ UNCHANGED <<libVars, cfgVars, totalFrames, frame, ret, chanVars, workerVars,
                 completed, fsVars, renderLog, stageLog, hist>>

\* A worker that derives t from frame instead of frame-1.
W_RecvOffByOne(w) ==
  /\ wpc[w] = "recv" /\ jobs # <<>>
  /\ LET f == Head(jobs)
     IN /\ wframe' = [wframe EXCEPT ![w] = f]
        /\ recvd' = recvd (+) SetToBag({f})
        /\ NewRenderer(w, f, Frac(f, totalFrames))
        /\ calls' = calls (+) SetToBag({<<f, Frac(f, totalFrames)>>})
  /\ jobs' = Tail(jobs)
  /\ wpc' = [wpc EXCEPT ![w] = "save"]
  /\ UNCHANGED <<libVars, cfgVars, pc, totalFrames, frame, gfErr, ret, jobsClosed,
                 errors, progress, progressClosed, progVars, fsVars, saves,
                 written, runFailed, released, stageLog, hist>>

\* A worker that reads the head of the queue without removing it while
\* another job is queued behind it.
W_RecvNoDequeue(w) ==
  /\ wpc[w] = "recv" /\ jobs # <<>>
  /\ LET f == Head(jobs)
     IN /\ wframe' = [wframe EXCEPT ![w] = f]
        /\ recvd' = recvd (+) SetToBag({f})
        /\ NewRenderer(w, f, NormTime(f, totalFrames))
        /\ calls' = calls (+) SetToBag({<<f, NormTime(f, totalFrames)>>})
  /\ jobs' = IF CopiesIn(Head(jobs), recvd) = 0 /\ Len(jobs) > 1
               THEN jobs ELSE Tail(jobs)
  /\ wpc' = [wpc EXCEPT ![w] = "save"]
  /\ UNCHANGED <<libVars, cfgVars, pc, totalFrames, frame, gfErr, ret, jobsClosed,
                 errors, progress, progressClosed, progVars, fsVars, saves,
                 written, runFailed, released, stageLog, hist>>

\* Worker, lines 135-142: receive a frame from jobs, t, NewRenderer, callback.
W_Recv(w) ==
  /\ wpc[w] = "recv" /\ jobs # <<>>
  /\ LET f == Head(jobs)
     IN /\ wframe' = [wframe EXCEPT ![w] = f]
        /\ recvd' = recvd (+) SetToBag({f})
        /\ NewRenderer(w, f, NormTime(f, totalFrames))
        /\ calls' = calls (+) SetToBag({<<f, NormTime(f, totalFrames)>>})
  /\ jobs' = Tail(jobs)
  /\ wpc' = [wpc EXCEPT ![w] = "save"]
  /\ UNCHANGED <<libVars, cfgVars, pc, totalFrames, frame, gfErr, ret, jobsClosed,
                 errors, progress, progressClosed, progVars, fsVars, saves,
                 written, runFailed, released, stageLog, hist>>

\* Worker, lines 135 and 133: jobs is closed and drained, the range loop ends
\* and the deferred wg.Done() runs.
W_Exit(w) ==
  /\ wpc[w] = "recv" /\ jobs = <<>> /\ jobsClosed
  /\ wpc' = [wpc EXCEPT ![w] = "done"]
  /\ UNCHANGED <<libVars, cfgVars, pc, totalFrames, frame, gfErr, ret, chanVars,
                 wframe, progVars, fsVars, renderLog, stageLog, hist>>

\* Worker, lines 144-154: SaveToPNG and Destroy, then either errors <- err and
\* return (with the deferred wg.Done()) or progress <- 1 and back to the
\* receive.  Both channels are buffered (errors: workers, progress:
\* totalFrames), so the send follows the save without waiting.
W_Save(w) ==
  /\ wpc[w] = "save"
  /\ \E writeOk \in BOOLEAN :
       LET path == FramePath(Config.TempDir, wframe[w])
           err == SaveToPNG(writeOk)
       IN /\ WriteFile(path, wframe[w], writeOk)
          /\ Destroy(w, wframe[w])
          /\ IF err # Nil
               THEN /\ Len(errors) < EffectiveWorkers(Config.Workers)
                    /\ errors' = Append(errors, SaveError(wframe[w]))
                    /\ wpc' = [wpc EXCEPT ![w] = "done"]
                    /\ UNCHANGED progress
               ELSE /\ progress < totalFrames
                    /\ progress' = progress + 1
                    /\ wpc' = [wpc EXCEPT ![w] = "recv"]
                    /\ UNCHANGED errors
  /\ wframe' = [wframe EXCEPT ![w] = 0]
  /\ UNCHANGED <<libVars, cfgVars, pc, totalFrames, frame, gfErr, ret, jobs, jobsClosed,
                 progressClosed, progVars, calls, recvd, stageLog, hist>>

\* Progress goroutine, lines 163-172: receive one signal; leave the loop when
\* completed reaches totalFrames.
P_Recv ==
  /\ ppc = "loop" /\ progress > 0
  /\ progress' = progress - 1
  /\ completed' = completed + 1
  /\ ppc' = IF completed + 1 = totalFrames THEN "senddone" ELSE "loop"
  /\ UNCHANGED <<libVars, cfgVars, pc, totalFrames, frame, gfErr, ret, jobs, jobsClosed,
                 errors, progressClosed, workerVars, fsVars, renderLog,
                 stageLog, hist>>

\* Progress goroutine, line 163: progress is closed and drained, the loop ends.
P_Closed ==
  /\ ppc = "loop" /\ progress = 0 /\ progressClosed
  /\ ppc' = "senddone"
  /\ UNCHANGED <<libVars, cfgVars, pc, totalFrames, frame, gfErr, ret, chanVars,
                 workerVars, completed, fsVars, renderLog, stageLog, hist>>

\* ------------------------------------------------- after GenerateFrames
\* index -> (t, file name) of the frames this run rendered and saved
FrameMap ==
  {<<x[1][1], x[1][2], x[2][2][2]>> :
     x \in {y \in BagToSet(calls) \X BagToSet(saves) : y[1][1] = y[2][1]}}

RunMode == IF EffectiveWorkers(Config.Workers) = 1 THEN "single" ELSE "multi"

\* Outcome of a GenerateFrames call that returned nil with every file written.
RunResult == [set |-> TRUE, n |-> totalFrames, map |-> FrameMap,
              names |-> {x[2][2] : x \in written}]

\* Remember the outcome of the last such call in each mode.
Recorded ==
  IF gfErr = Nil /\ ~runFailed THEN [hist EXCEPT ![RunMode] = RunResult] ELSE hist

\* Generate, lines 230-232: GenerateFrames returned.
GenerateAfterFrames ==
  /\ pc = "gf_ret" /\ api = "Generate"
  /\ hist' = Recorded
  /\ IF gfErr # Nil
       THEN ret' = gfErr /\ pc' = "idle"
       ELSE pc' = "compose" /\ UNCHANGED ret
  /\ UNCHANGED <<libVars, cfgVars, totalFrames, frame, gfErr, chanVars, workerVars,
                 progVars, fsVars, renderLog, stageLog>>

\* A GenerateFramesOnly whose return leaves TempDir at outputDir.
FramesOnlyReturnNoRestore ==
  /\ pc = "gf_ret" /\ api = "FramesOnly"
  /\ hist' = Recorded
  /\ ret' = gfErr
  /\ pc' = "idle"
  /\ UNCHANGED <<libVars, cfgVars, totalFrames, frame, gfErr, chanVars, workerVars,
                 progVars, fsVars, renderLog, stageLog>>

\* GenerateFramesOnly, lines 256-269: GenerateFrames returned; return its
\* error or nil; the deferred function restores TempDir.
FramesOnlyReturn ==
  /\ pc = "gf_ret" /\ api = "FramesOnly"
  /\ hist' = Recorded
  /\ ret' = gfErr
  /\ Config' = [Config EXCEPT !.TempDir = originalTempDir]
  /\ pc' = "idle"
  /\ UNCHANGED <<libVars, api, viaMain, probe, runs, originalTempDir,
                 cleanupAtCall, outputDir,
                 totalFrames, frame, gfErr, chanVars, workerVars, progVars,
                 fsVars, renderLog, stageLog>>

\* ComposeVideo that records the failure but lets the run go on to cleanup.
ComposeVideoNoAbort ==
  /\ pc = "compose"
  /\ encoderCalls' = encoderCalls + 1
  /\ encoderSaw' = {x \in files : x[1] = Config.TempDir}
  /\ \E ok \in BOOLEAN, out \in EncoderOutputs :
       IF ok
         THEN videoMade' = TRUE /\ encoderOutput' = "" /\ UNCHANGED ret
         ELSE videoMade' = FALSE /\ encoderOutput' = out
              /\ ret' = Err("ffmpeg", 0, out)
  /\ pc' = "cleanup"
  /\ UNCHANGED <<libVars, cfgVars, totalFrames, frame, gfErr, chanVars, workerVars,
                 progVars, fsVars, renderLog, removeCalls, removeFailed, hist>>

\* Generate, lines 235-237, with ComposeVideo, lines 200-225: run ffmpeg on
\* the frames of TempDir; a failure is returned with the combined output.
ComposeVideo ==
  /\ pc = "compose"
  /\ encoderCalls' = encoderCalls + 1
  /\ encoderSaw' = {x \in files : x[1] = Config.TempDir}
  /\ \E ok \in BOOLEAN, out \in EncoderOutputs :
       IF ok
         THEN /\ videoMade' = TRUE /\ encoderOutput' = ""
              /\ pc' = "cleanup" /\ UNCHANGED ret
         ELSE /\ videoMade' = FALSE /\ encoderOutput' = out
              /\ ret' = Err("ffmpeg", 0, out) /\ pc' = "idle"
  /\ UNCHANGED <<libVars, cfgVars, totalFrames, frame, gfErr, chanVars, workerVars,
                 progVars, fsVars, renderLog, removeCalls, removeFailed, hist>>

\* os.RemoveAll(dir): the outcomes of one call.  It removes dir and all it
\* holds and returns nil, or it removes what it can, any part of the files of
\* dir, and returns the first error it met; dir itself is then still there.
RemoveAll(dir) ==
  LET inside == {x \in files : x[1] = dir}
  IN {[ok |-> TRUE, files |-> files \ inside, dirs |-> dirs \ {dir}]}
     \cup {[ok |-> FALSE, files |-> files \ gone, dirs |-> dirs] :
             gone \in SUBSET inside}

\* A cleanup that returns the error of os.RemoveAll.
CleanupEscalates ==
  /\ pc = "cleanup"
  /\ \E removed \in RemoveAll(Config.TempDir) :
       IF Config.CleanupTemp
         THEN /\ removeCalls' = removeCalls + 1
              /\ removeFailed' = ~removed.ok
              /\ files' = removed.files
              /\ dirs' = removed.dirs
              /\ ret' = IF removed.ok THEN Nil ELSE Err("remove", 0, "")
         ELSE ret' = Nil /\ UNCHANGED <<removeCalls, removeFailed, files, dirs>>
  /\ pc' = "idle"
  /\ UNCHANGED <<libVars, cfgVars, totalFrames, frame, gfErr, chanVars, workerVars,
                 progVars, renderLog, encoderCalls, encoderSaw,
                 videoMade, encoderOutput, hist>>

\* A cleanup that does not look at CleanupTemp.
CleanupAlways ==
  /\ pc = "cleanup"
  /\ \E removed \in RemoveAll(Config.TempDir) :
       /\ removeCalls' = removeCalls + 1
       /\ removeFailed' = ~removed.ok
       /\ files' = removed.files
       /\ dirs' = removed.dirs
  /\ ret' = Nil
  /\ pc' = "idle"
  /\ UNCHANGED <<libVars, cfgVars, totalFrames, frame, gfErr, chanVars, workerVars,
                 progVars, renderLog, encoderCalls, encoderSaw,
                 videoMade, encoderOutput, hist>>

\* Generate, lines 240-246: optional os.RemoveAll(TempDir), whose failure is
\* only printed; return nil.
Cleanup ==
  /\ pc = "cleanup"
  /\ \E removed \in RemoveAll(Config.TempDir) :
       IF Config.CleanupTemp
         THEN /\ removeCalls' = removeCalls + 1
              /\ removeFailed' = ~removed.ok
              /\ files' = removed.files
              /\ dirs' = removed.dirs
         ELSE UNCHANGED <<removeCalls, removeFailed, files, dirs>>
  /\ ret' = Nil
  /\ pc' = "idle"
  /\ UNCHANGED <<libVars, cfgVars, totalFrames, frame, gfErr, chanVars, workerVars,
                 progVars, renderLog, encoderCalls, encoderSaw,
                 videoMade, encoderOutput, hist>>

\* ----------------------------------------------------------- specification
Next ==
  \/ \E k \in WorkerCounts : CallGenerate(k)
  \/ \E k \in WorkerCounts, dir \in OutputDirs : CallGenerateFramesOnly(k, dir)
  \/ Main
  \/ GenerateFrames
  \/ ST_Render
  \/ ST_Save
  \/ ST_Done
  \/ MT_Spawn
  \/ MT_Dispatch
  \/ MT_CloseJobs
  \/ MT_Join
  \/ MT_Finish
  \/ \E w \in WorkerIds : W_Recv(w)
  \/ \E w \in WorkerIds : W_Exit(w)
  \/ \E w \in WorkerIds : W_Save(w)
  \/ P_Recv
  \/ P_Closed
  \/ GenerateAfterFrames
  \/ FramesOnlyReturn
  \/ ComposeVideo
  \/ Cleanup

Spec == Init /\ [][Next]_vars

\* A Generate call with two or more workers, from its call of GenerateFrames
\* to the return of GenerateFrames.
MultiInit ==
  /\ Config \in [FPS : FPSValues, DurQ : 0..MaxDurQ, Workers : 2..MaxWorkers,
                 CleanupTemp : BOOLEAN, TempDir : {DefaultTempDir}]
  /\ pc = "gf_entry" /\ api = "Generate" /\ viaMain = FALSE /\ probe = "none" /\ runs = 1
  /\ originalTempDir = DefaultTempDir /\ outputDir = DefaultTempDir
  /\ cleanupAtCall = Config.CleanupTemp
  /\ totalFrames = 0 /\ frame = 0 /\ gfErr = Nil /\ ret = Nil
  /\ jobs = <<>> /\ jobsClosed = FALSE /\ errors = <<>>
  /\ progress = 0 /\ progressClosed = FALSE
  /\ wpc = [w \in WorkerIds |-> "off"]
  /\ wframe = [w \in WorkerIds |-> 0]
  /\ ppc = "off" /\ completed = 0
  /\ dirs = {} /\ files = {}
  /\ calls = EmptyBag /\ saves = EmptyBag /\ written = {} /\ recvd = EmptyBag
  /\ runFailed = FALSE
  /\ encoderCalls = 0 /\ removeCalls = 0 /\ encoderSaw = {} /\ videoMade = FALSE
  /\ encoderOutput = "" /\ removeFailed = FALSE
  /\ live = {} /\ released = EmptyBag /\ rstate = <<>>
  /\ hist = [single |-> NoResult, multi |-> NoResult]
  /\ LibNew

MultiNext ==
  \/ GenerateFrames
  \/ MT_Spawn
  \/ MT_Dispatch
  \/ MT_CloseJobs
  \/ MT_Join
  \/ MT_Finish
  \/ \E w \in WorkerIds : W_Recv(w)
  \/ \E w \in WorkerIds : W_Exit(w)
  \/ \E w \in WorkerIds : W_Save(w)
  \/ P_Recv
  \/ P_Closed

\* The Go scheduler: a goroutine that stays runnable is eventually run.  Each
\* step of the calling goroutine, of each worker and of the progress
\* goroutine is weakly fair; the callback and the save return.
FairSpec ==
  /\ MultiInit /\ [][MultiNext]_vars
  /\ WF_vars(GenerateFrames) /\ WF_vars(MT_Spawn)
  /\ WF_vars(MT_Dispatch) /\ WF_vars(MT_CloseJobs)
  /\ WF_vars(MT_Join) /\ WF_vars(MT_Finish)
  /\ \A w \in WorkerIds :
       WF_vars(W_Recv(w)) /\ WF_vars(W_Exit(w)) /\ WF_vars(W_Save(w))
  /\ WF_vars(P_Recv) /\ WF_vars(P_Closed)

\* The pipeline at rest with one fixed configuration: the state of the
\* pipeline variables in the specifications of the library operations below.
PipelineAtRest ==
  /\ PipelineInit
  /\ Config = [FPS |-> 0, DurQ |-> 0, Workers |-> 1, CleanupTemp |-> TRUE,
               TempDir |-> DefaultTempDir]

\* ------------------------------------------------------------- Scene.Render
\* Scene objects, lights and backgrounds of the example frame callback.
ObjectIds == {"solarSystem", "coordSystem"}
LightIds == {"light1", "light2"}
Backgrounds == {"gradient", "solid"}

sceneRest == <<pipeVars, drawVars, camVars, meshVars,
    lightVars, normVars, primVars>>

\* Scene.AddObject.
SceneAddObject(obj) ==
  /\ scPc = "build" /\ Len(scObjects) < MaxObjects
  /\ scObjects' = Append(scObjects, obj)
  /\ UNCHANGED <<scLights, scBackground, rLights, rLightsBefore, scPc, scIdx,
                 scDrawn, sceneRest>>

\* Scene.AddLight.
SceneAddLight(light) ==
  /\ scPc = "build" /\ Len(scLights) < MaxLights
  /\ scLights' = Append(scLights, light)
  /\ UNCHANGED <<scObjects, scBackground, rLights, rLightsBefore, scPc, scIdx,
                 scDrawn, sceneRest>>

\* Scene.SetBackground.
SetBackground(bg) ==
  /\ scPc = "build"
  /\ scBackground' = bg
  /\ UNCHANGED <<scObjects, scLights, rLights, rLightsBefore, scPc, scIdx,
                 scDrawn, sceneRest>>

\* Renderer.AddLight.
AddLight(light) ==
  /\ scPc = "build" /\ Len(rLights) < MaxLights
  /\ rLights' = Append(rLights, light)
  /\ UNCHANGED <<scObjects, scLights, scBackground, rLightsBefore, scPc, scIdx,
                 scDrawn, sceneRest>>

\* One Render call received by a background or an object, with the lights
\* the renderer has at that moment.
RenderCall(kind, who) == [kind |-> kind, who |-> who, lights |-> rLights]

\* A Scene.Render that adds the scene's lights to those of the renderer.
SceneRenderLightsAppends ==
  /\ scPc = "build"
  /\ rLightsBefore' = rLights
  /\ rLights' = rLights \o scLights
  /\ scPc' = "background"
  /\ UNCHANGED <<scObjects, scLights, scBackground, scIdx, scDrawn, sceneRest>>

\* Scene.Render, line 47: renderer.Lights = s.Lights.
SceneRenderLights ==
  /\ scPc = "build"
  /\ rLightsBefore' = rLights
  /\ rLights' = scLights
  /\ scPc' = "background"
  /\ UNCHANGED <<scObjects, scLights, scBackground, scIdx, scDrawn, sceneRest>>

\* Scene.Render, lines 50-52: the background, when one is set.
SceneRenderBackground ==
  /\ scPc = "background"
  /\ scDrawn' = IF scBackground # "nil"
                  THEN Append(scDrawn, RenderCall("background", scBackground))
                  ELSE scDrawn
  /\ scPc' = "objects" /\ scIdx' = 1
  /\ UNCHANGED <<scObjects, scLights, scBackground, rLights, rLightsBefore,
                 sceneRest>>

\* Scene.Render, lines 55-57: one iteration of the loop over s.Objects.
SceneRenderObject ==
  /\ scPc = "objects" /\ scIdx <= Len(scObjects)
  /\ scDrawn' = Append(scDrawn, RenderCall("object", scObjects[scIdx]))
  /\ scIdx' = scIdx + 1
  /\ UNCHANGED <<scObjects, scLights, scBackground, rLights, rLightsBefore,
                 scPc, sceneRest>>

\* Scene.Render, line 58: the loop is over, Render returns.
SceneRenderReturn ==
  /\ scPc = "objects" /\ scIdx > Len(scObjects)
  /\ scPc' = "done"
  /\ UNCHANGED <<scObjects, scLights, scBackground, rLights, rLightsBefore,
                 scIdx, scDrawn, sceneRest>>

SceneInit == PipelineAtRest /\ LibNew

SceneNext ==
  \/ \E obj \in ObjectIds : SceneAddObject(obj)
  \/ \E light \in LightIds : SceneAddLight(light)
  \/ \E bg \in Backgrounds : SetBackground(bg)
  \/ \E light \in LightIds : AddLight(light)
  \/ SceneRenderLights
  \/ SceneRenderBackground
  \/ SceneRenderObject
  \/ SceneRenderReturn

SceneSpec == SceneInit /\ [][SceneNext]_vars

\* ------------------------------------------------------ Renderer.DrawMesh
\* Vectors have integer components; a vector is <<X, Y, Z>>.
VSub(a, b) == <<a[1] - b[1], a[2] - b[2], a[3] - b[3]>>
VAdd(a, b) == <<a[1] + b[1], a[2] + b[2], a[3] + b[3]>>
Dot(a, b) == a[1] * b[1] + a[2] * b[2] + a[3] * b[3]
Cross(a, b) == <<a[2] * b[3] - a[3] * b[2],
                 a[3] * b[1] - a[1] * b[3],
                 a[1] * b[2] - a[2] * b[1]>>

Tri(v0, v1, v2) == [V0 |-> v0, V1 |-> v1, V2 |-> v2]

\* The triangles meshes are made of: in front of, on and behind the near
\* limit z = -1, beyond z = 1, with either winding, and one seen edge-on
\* (its plane holds the camera).
TriangleSet ==
  { Tri(<<0, 0, 1>>, <<0, 1, 1>>, <<1, 0, 1>>),
    Tri(<<0, 0, 1>>, <<1, 0, 1>>, <<0, 1, 1>>),
    Tri(<<0, 0, 2>>, <<0, 1, 2>>, <<1, 0, 2>>),
    Tri(<<0, 0, -1>>, <<0, 4, 2>>, <<1, 0, -1>>),
    Tri(<<0, 0, -1>>, <<1, 0, -1>>, <<0, 4, 2>>),
    Tri(<<-3, 0, -1>>, <<0, -2, 1>>, <<0, 0, 0>>),
    Tri(<<0, 0, -2>>, <<0, 1, 0>>, <<1, 0, 0>>),
    Tri(<<0, 0, 0>>, <<0, 1, -2>>, <<1, 0, 0>>),
    Tri(<<0, 0, 0>>, <<0, 1, 0>>, <<1, 0, -2>>) }

\* The camera of the drawing specification: Position (0,0,0), Target
\* (0,0,-1), Up (0,1,0), FOV 0.  LookAt then gives the identity and so does
\* Perspective (it returns Identity() for |fov| < 1e-10); TransformVector
\* does not divide (w = 1), so the projected depth is the Z of the vertex.
CameraPosition == <<0, 0, 0>>
ProjectToScreenZ(v) == v[3]

\* avgDepth := (z0 + z1 + z2) / 3.0, as the fraction <<z0 + z1 + z2, 3>>.
AvgDepth(tri) ==
  <<ProjectToScreenZ(tri.V0) + ProjectToScreenZ(tri.V1)
      + ProjectToScreenZ(tri.V2), 3>>

\* a > b for fractions with positive denominators.
DepthGreater(a, b) == a[1] * b[2] > b[1] * a[2]

\* drawFlat / drawShaded / DrawMeshWithGradient: z0 < -1 || z1 < -1 || z2 < -1.
BehindNear(tri) ==
  \/ ProjectToScreenZ(tri.V0) < -1
  \/ ProjectToScreenZ(tri.V1) < -1
  \/ ProjectToScreenZ(tri.V2) < -1

\* A wireframe cull that tests the near limit only.
OutsideNearOnly(tri) ==
  \E v \in {tri.V0, tri.V1, tri.V2} : ProjectToScreenZ(v) < -1

\* drawWireframe: any of the three depths outside [-1, 1].
OutsideDepthRange(tri) ==
  \E v \in {tri.V0, tri.V1, tri.V2} :
    ProjectToScreenZ(v) < -1 \/ ProjectToScreenZ(v) > 1

\* Triangle.Normal up to its positive length: the cross product of the two
\* edges, (0,1,0) for a degenerate triangle.
NormalDir(tri) ==
  LET c == Cross(VSub(tri.V1, tri.V0), VSub(tri.V2, tri.V0))
  IN IF c = <<0, 0, 0>> THEN <<0, 1, 0>> ELSE c

\* Three times Triangle.Center.
CenterTimes3(tri) == VAdd(VAdd(tri.V0, tri.V1), tri.V2)

\* Three times Camera.Position - Center, the direction of viewDir.
ViewDir3(tri) ==
  VSub(<<3 * CameraPosition[1], 3 * CameraPosition[2],
         3 * CameraPosition[3]>>, CenterTimes3(tri))

\* drawShaded, line 298: the exact value of normal.Dot(viewDir) is 0 while
\* a term of the sum is not.  The code adds the float64 products of the two
\* normalised vectors, and the rounding of the normalisations decides
\* whether the sum comes out below zero, zero or above.
EdgeOn(tri) ==
  /\ Dot(NormalDir(tri), ViewDir3(tri)) = 0
  /\ \E k \in 1..3 : NormalDir(tri)[k] * ViewDir3(tri)[k] # 0

\* drawShaded, lines 296-299: normal.Dot(viewDir) < 0 with viewDir the
\* normalised Camera.Position - Center.  Normalising scales by a positive
\* factor (or gives the zero vector), so the sign of a product that is not 0
\* is that of the dot product of the unnormalised vectors; for a triangle
\* seen edge-on the test holds when the rounding went below zero.
BackFacing(tri, below) ==
  \/ Dot(NormalDir(tri), ViewDir3(tri)) < 0
  \/ EdgeOn(tri) /\ below

\* A drawShaded that keeps the triangles facing away from the camera.
ShadedCulledNoBackface(tri, below) == BehindNear(tri)

\* drawShaded, lines 287 and 298: the two tests that skip a triangle.
ShadedCulled(tri, below) == BehindNear(tri) \/ BackFacing(tri, below)

\* The culling test of each drawing function.
Culled(mode, tri, below) ==
  IF mode = "wireframe" THEN OutsideDepthRange(tri)
  ELSE IF mode = "shaded" THEN ShadedCulled(tri, below)
  ELSE BehindNear(tri)

\* The sets of triangles of the mesh for which the dot product of line 298
\* can have come out below zero by rounding (the same triangle rounds the
\* same way wherever it is in the mesh).
Roundings(mesh) ==
  SUBSET {mesh[i] : i \in {j \in 1..Len(mesh) : EdgeOn(mesh[j])}}

\* Indices of mesh.Triangles, in order, that the drawing function of the
\* mode does not cull, the triangles of down being the ones rounded below
\* zero.
Kept(mesh, mode, down) ==
  LET F[i \in 0..Len(mesh)] ==
        IF i = 0 THEN <<>>
        ELSE IF Culled(mode, mesh[i], mesh[i] \in down) THEN F[i - 1]
        ELSE Append(F[i - 1], i)
  IN F[Len(mesh)]

\* Rearrangements of the sequence kept.
Rearrangements(kept) ==
  {p \in [1..Len(kept) -> 1..Len(kept)] :
     \A i, j \in 1..Len(kept) : p[i] = p[j] => i = j}

\* A drawing that fills in mesh order, without sorting.
SortedOrdersNoSort(mesh, kept) == {kept}

\* sort.Slice with less(i, j) = depth[i] > depth[j]: some rearrangement in
\* which no element has a greater depth than an element before it (the sort
\* is not stable, so ties may come out in any order).
SortedOrders(mesh, kept) ==
  { [k \in 1..Len(kept) |-> kept[p[k]]] : p \in
      {q \in Rearrangements(kept) :
         \A i, j \in 1..Len(kept) :
           i < j => ~DepthGreater(AvgDepth(mesh[kept[q[j]]]),
                                  AvgDepth(mesh[kept[q[i]]]))} }

\* -------------------------------------------------- InterpolatedCameraPath
\* Times are multiples of 1/TimeDen.
TimeDen == 4
KeyframeTimes == {Norm(0, TimeDen), Norm(2, TimeDen), Norm(4, TimeDen)}
EvalTimes == {Norm(n, TimeDen) : n \in (0 - 1)..5}

\* The camera values keyframes are made of.
Poses ==
  { [Position |-> FVec(0, 0, 0 - 5), Target |-> FVec(0, 0, 0), FOV |-> Num(1)],
    [Position |-> FVec(4, 2, 0), Target |-> FVec(0, 1, 0), FOV |-> Num(2)] }

CameraKeyframe(time, pose) ==
  [Time |-> time, Position |-> pose.Position, Target |-> pose.Target,
   FOV |-> pose.FOV]

Keyframes == {CameraKeyframe(time, pose) : time \in KeyframeTimes, pose \in Poses}

\* var kf1, kf2 CameraKeyframe: the zero value.
ZeroKeyframe ==
  [Time |-> Num(0), Position |-> FVec(0, 0, 0), Target |-> FVec(0, 0, 0),
   FOV |-> Num(0)]

\* Smoothstep: 0 below 0, 1 above 1, t*t*(3 - 2*t) otherwise.
Smoothstep(t) ==
  IF FLess(t, Num(0)) THEN Num(0)
  ELSE IF FLess(Num(1), t) THEN Num(1)
  ELSE FMul(FMul(t, t), FSub(Num(3), FMul(Num(2), t)))

\* The loop of interpolateVector / interpolateFloat: index of the first pair
\* with Keyframes[i].Time <= t <= Keyframes[i+1].Time, 0 when there is none.
Bracket(kfs, t) ==
  LET hits == {i \in 1..(Len(kfs) - 1) :
                 FLeq(kfs[i].Time, t) /\ FLeq(t, kfs[i + 1].Time)}
  IN IF hits = {} THEN 0 ELSE CHOOSE i \in hits : \A j \in hits : i <= j

\* localT after smoothing, for the bracket found (the zero keyframes when
\* none was found).
LocalT(kfs, t) ==
  LET i == Bracket(kfs, t)
      kf1 == IF i = 0 THEN ZeroKeyframe ELSE kfs[i]
      kf2 == IF i = 0 THEN ZeroKeyframe ELSE kfs[i + 1]
  IN Smoothstep(FDiv(FSub(t, kf1.Time), FSub(kf2.Time, kf1.Time)))

\* interpolateFloat with the getter of field f.
interpolateFloat(kfs, t, f) ==
  IF Len(kfs) = 0 THEN Num(0)
  ELSE IF Len(kfs) = 1 THEN kfs[1][f]
  ELSE IF FLess(t, kfs[1].Time) THEN kfs[1][f]
  ELSE IF FLess(kfs[Len(kfs)].Time, t) THEN kfs[Len(kfs)][f]
  ELSE LET i == Bracket(kfs, t)
           v1 == IF i = 0 THEN ZeroKeyframe[f] ELSE kfs[i][f]
           v2 == IF i = 0 THEN ZeroKeyframe[f] ELSE kfs[i + 1][f]
           localT == LocalT(kfs, t)
       IN FAdd(FMul(v1, FSub(Num(1), localT)), FMul(v2, localT))

\* interpolateVector with the getter of field f.
interpolateVector(kfs, t, f) ==
  IF Len(kfs) = 0 THEN FVec(0, 0, 0)
  ELSE IF Len(kfs) = 1 THEN kfs[1][f]
  ELSE IF FLess(t, kfs[1].Time) THEN kfs[1][f]
  ELSE IF FLess(kfs[Len(kfs)].Time, t) THEN kfs[Len(kfs)][f]
  ELSE LET i == Bracket(kfs, t)
           v1 == IF i = 0 THEN ZeroKeyframe[f] ELSE kfs[i][f]
           v2 == IF i = 0 THEN ZeroKeyframe[f] ELSE kfs[i + 1][f]
           localT == LocalT(kfs, t)
       IN FVAdd(FScale(v1, FSub(Num(1), localT)), FScale(v2, localT))

camRest == <<pipeVars, sceneVars, drawVars, meshVars,
    lightVars, normVars, primVars>>

\* ApplyCameraPath: Position, Target and FOV of the camera from GetPosition,
\* GetTarget and GetFOV of the path at t.
ApplyCameraPath(t) ==
  /\ camT' = t /\ camPc' = "applied"
  /\ camera' = [camera EXCEPT
                  !.Position = interpolateVector(camKeyframes, t, "Position"),
                  !.Target = interpolateVector(camKeyframes, t, "Target"),
                  !.FOV = interpolateFloat(camKeyframes, t, "FOV")]
  /\ UNCHANGED <<camKeyframes, camRest>>

\* NewInterpolatedCameraPath(keyframes) for the keyframe slices up to
\* MaxKeyframes long, in any order of their times.
CamInit ==
  /\ PipelineAtRest /\ SceneNew /\ DrawNew /\ MeshNew /\ LightNew /\ NormNew
  /\ PrimNew
  /\ camKeyframes \in UNION {[1..n -> Keyframes] : n \in 0..MaxKeyframes}
  /\ camT = Num(0) /\ camera = NewCamera /\ camPc = "new"

CamNext == \E t \in EvalTimes : ApplyCameraPath(t)

CamSpec == CamInit /\ [][CamNext]_vars

\* ------------------------------------------------- Mesh.Transform, Merge
\* Translation(x, y, z) and Scale(x, y, z).
Translation(x, y, z) == <<Num(1), Num(0), Num(0), Num(x),
                          Num(0), Num(1), Num(0), Num(y),
                          Num(0), Num(0), Num(1), Num(z),
                          Num(0), Num(0), Num(0), Num(1)>>

Scale(x, y, z) == <<Num(x), Num(0), Num(0), Num(0),
                    Num(0), Num(y), Num(0), Num(0),
                    Num(0), Num(0), Num(z), Num(0),
                    Num(0), Num(0), Num(0), Num(1)>>

\* The matrices meshes are transformed by; the last one has w = 2 for every
\* vector, so that TransformVector divides.
MatrixSet ==
  {Identity, Translation(1, 0, 2), Scale(2, 3, 1),
   [Identity EXCEPT ![16] = Num(2)]}

\* Matrix4.TransformVector.  The code divides when |w| > 1e-10 and
\* |w - 1| > 1e-10; no w of the matrices and vectors used here is that close
\* to 0 or 1 without being equal to it.  Both comparisons are false for a
\* NaN w, which is then not divided by.
TransformVector(m, v) ==
  LET row(r) == FAdd(FAdd(FAdd(FMul(m[4 * r - 3], v[1]),
                               FMul(m[4 * r - 2], v[2])),
                          FMul(m[4 * r - 1], v[3])),
                     m[4 * r])
      w == row(4)
  IN IF w # NaN /\ w # Num(0) /\ w # Num(1)
       THEN <<FDiv(row(1), w), FDiv(row(2), w), FDiv(row(3), w)>>
       ELSE <<row(1), row(2), row(3)>>

\* Mesh.Transform: a new mesh with every vertex and every triangle
\* transformed, in order.
Transform(m, matrix) ==
  [Vertices |-> [i \in 1..Len(m.Vertices) |->
                   TransformVector(matrix, m.Vertices[i])],
   Triangles |-> [i \in 1..Len(m.Triangles) |->
                    Tri(TransformVector(matrix, m.Triangles[i].V0),
                        TransformVector(matrix, m.Triangles[i].V1),
                        TransformVector(matrix, m.Triangles[i].V2))]]

\* The elements of b that are not in a, in order.
NotIn(a, b) ==
  LET F[i \in 0..Len(b)] ==
        IF i = 0 THEN <<>>
        ELSE IF \E k \in 1..Len(a) : a[k] = b[i]
               THEN F[i - 1] ELSE Append(F[i - 1], b[i])
  IN F[Len(b)]

\* A Merge that leaves out the vertices and triangles the receiver has.
MergeDedup(m, other) ==
  [Vertices |-> m.Vertices \o NotIn(m.Vertices, other.Vertices),
   Triangles |-> m.Triangles \o NotIn(m.Triangles, other.Triangles)]

\* Mesh.Merge: the receiver after the two appends.
Merge(m, other) ==
  [Vertices |-> m.Vertices \o other.Vertices,
   Triangles |-> m.Triangles \o other.Triangles]

\* The vertices and triangles meshes are made of.
MeshVertices == {FVec(0, 0, 0), FVec(1, 2, 2)}
MeshTriangles ==
  {Tri(FVec(0, 0, 0), FVec(1, 0, 0), FVec(0, 1, 0)),
   Tri(FVec(1, 2, 2), FVec(0, 0, 2), FVec(2, 0, 0))}

\* Meshes built with AddVertex and AddTriangle.
Meshes ==
  [Vertices : UNION {[1..n -> MeshVertices] : n \in 0..MaxMeshLen},
   Triangles : UNION {[1..n -> MeshTriangles] : n \in 0..MaxMeshLen}]

meshRest == <<pipeVars, sceneVars, drawVars, camVars,
    lightVars, normVars, primVars>>

\* out := m.Transform(matrix).
MeshTransform(matrix) ==
  /\ meshOp = "none"
  /\ meshOp' = "Transform" /\ meshMatrix' = matrix
  /\ meshMBefore' = meshM /\ meshOtherBefore' = meshOther
  /\ meshOut' = Transform(meshM, matrix)
  /\ UNCHANGED <<meshM, meshOther, meshRest>>

\* m.Merge(other), other being another mesh than m.
MeshMerge ==
  /\ meshOp = "none"
  /\ meshOp' = "Merge"
  /\ meshMBefore' = meshM /\ meshOtherBefore' = meshOther
  /\ meshM' = Merge(meshM, meshOther)
  /\ UNCHANGED <<meshOther, meshOut, meshMatrix, meshRest>>

MeshInit ==
  /\ PipelineAtRest /\ SceneNew /\ DrawNew /\ CamNew /\ LightNew /\ NormNew
  /\ PrimNew
  /\ meshM \in Meshes /\ meshOther \in Meshes
  /\ meshOut = NewMesh /\ meshMatrix = Identity /\ meshOp = "none"
  /\ meshMBefore = NewMesh /\ meshOtherBefore = NewMesh

MeshNext ==
  \/ \E matrix \in MatrixSet : MeshTransform(matrix)
  \/ MeshMerge

MeshSpec == MeshInit /\ [][MeshNext]_vars

\* ------------------------------------------------ Renderer.CalculateLighting
\* math.Max and math.Min; NaN if either argument is NaN.
FMax(a, b) == IF a = NaN \/ b = NaN THEN NaN ELSE IF FLess(a, b) THEN b ELSE a
FMin(a, b) == IF a = NaN \/ b = NaN THEN NaN ELSE IF FLess(b, a) THEN b ELSE a

FVSub(a, b) == <<FSub(a[1], b[1]), FSub(a[2], b[2]), FSub(a[3], b[3])>>
FDot(a, b) == FAdd(FAdd(FMul(a[1], b[1]), FMul(a[2], b[2])), FMul(a[3], b[3]))

\* math.Sqrt of a fraction whose numerator and denominator are squares (the
\* vectors used below all have such a squared length).
ISqrt(n) == CHOOSE k \in 0..n : k * k = n
FSqrt(a) == Norm(ISqrt(a[1]), ISqrt(a[2]))

\* Vector3.Length and Vector3.Normalize (the zero vector for a length under
\* 1e-10, which for the vectors used here is length 0).
FLength(v) == FSqrt(FDot(v, v))
\* A Normalize that divides whatever the length is.
NormalizeNoGuard(v) == FScale(v, FDiv(Num(1), FLength(v)))

Normalize(v) ==
  IF FLength(v) = Num(0) THEN FVec(0, 0, 0)
  ELSE FScale(v, FDiv(Num(1), FLength(v)))

\* ------------------------------------------------------ Vector3.Normalize
\* Components are integers up to MaxCoord in absolute value, +Inf, -Inf or
\* NaN; the vectors are those whose squared length has a square root among
\* the modelled values.
MaxCoord == 3
Coords == {Num(n) : n \in (0 - MaxCoord)..MaxCoord} \cup {<<1, 0>>, <<0 - 1, 0>>, NaN}

IsSquare(a) ==
  /\ a[1] >= 0
  /\ \E k \in 0..a[1] : k * k = a[1]
  /\ \E k \in 0..a[2] : k * k = a[2]

NormVectors ==
  {v \in Coords \X Coords \X Coords : IsSquare(FDot(v, v))}

normRest == <<pipeVars, sceneVars, drawVars, camVars,
    meshVars, lightVars, primVars>>

\* One call nzV.Normalize(); the division 1.0 / length is made on the path
\* past the length test only.
CallNormalize ==
  /\ nzPc = "new"
  /\ nzPc' = "done"
  /\ nzOut' = Normalize(nzV)
  /\ nzDivs' = IF FLength(nzV) = Num(0) THEN <<>> ELSE <<FLength(nzV)>>
  /\ UNCHANGED <<nzV, normRest>>

NormInit ==
  /\ PipelineAtRest /\ SceneNew /\ DrawNew /\ CamNew /\ MeshNew /\ LightNew
  /\ PrimNew
  /\ nzV \in NormVectors
  /\ nzOut = FVec(0, 0, 0) /\ nzDivs = <<>> /\ nzPc = "new"

NormNext == CallNormalize

NormSpec == NormInit /\ [][NormNext]_vars

\* The lights of the example frame callback (colours and intensities) at
\* positions with rational distances to the lit points, and two stronger
\* lights, one of them at a lit point.
LightSet ==
  { NewLight(FVec(3, 4, 0), Color(10, 9, 8), Tenths(8)),
    NewLight(FVec(0, 4, 0), Color(6, 7, 10), Tenths(6)),
    NewLight(FVec(0, 0, 0), Color(10, 10, 10), Tenths(20)),
    NewLight(FVec(3, 0, 0), Color(10, 5, 0), Tenths(20)) }

LitPositions == {FVec(0, 0, 0), FVec(3, 4, 0)}
Normals == {FVec(0, 1, 0), FVec(0, 0 - 1, 0), FVec(1, 0, 0)}
BaseColors == {Color(10, 10, 10), Color(5, 2, 10), Color(20, 1, 0)}

\* ambient := [3]float64{0.2, 0.2, 0.2}
Ambient == Color(2, 2, 2)

\* The loop over r.Lights: diffuse after the first n lights.
Diffuse(lights, position, normal, n) ==
  LET D[i \in 0..n] ==
        IF i = 0 THEN FVec(0, 0, 0)
        ELSE LET light == lights[i]
                 lightDir == Normalize(FVSub(light.Position, position))
                 intensity == FMul(FMax(Num(0), FDot(normal, lightDir)),
                                   light.Intensity)
             IN FVAdd(D[i - 1], FScale(light.Color, intensity))
  IN D[n]

\* A CalculateLighting without the clamp to 1.0.
CalculateLightingNoClamp(lights, position, normal, baseColor) ==
  IF Len(lights) = 0 THEN baseColor
  ELSE LET diffuse == Diffuse(lights, position, normal, Len(lights))
       IN [ch \in 1..3 |-> FMul(FAdd(Ambient[ch], diffuse[ch]), baseColor[ch])]

\* Renderer.CalculateLighting.
CalculateLighting(lights, position, normal, baseColor) ==
  IF Len(lights) = 0 THEN baseColor
  ELSE LET diffuse == Diffuse(lights, position, normal, Len(lights))
       IN [ch \in 1..3 |->
             FMin(Num(1), FMul(FAdd(Ambient[ch], diffuse[ch]), baseColor[ch]))]

lightRest == <<pipeVars, sceneVars, drawVars, camVars,
    meshVars, normVars, primVars>>

\* One call of r.CalculateLighting(position, normal, baseColor).
CallCalculateLighting ==
  /\ ltPc = "new"
  /\ ltPc' = "done"
  /\ ltResult' = CalculateLighting(ltLights, ltArgs.position, ltArgs.normal,
                                   ltArgs.baseColor)
  /\ UNCHANGED <<ltLights, ltArgs, lightRest>>

LightInit ==
  /\ PipelineAtRest /\ SceneNew /\ DrawNew /\ CamNew /\ MeshNew /\ NormNew
  /\ PrimNew
  /\ ltLights \in UNION {[1..n -> LightSet] : n \in 0..MaxLights}
  /\ ltArgs \in [position : LitPositions, normal : Normals,
                 baseColor : BaseColors]
  /\ ltResult = FVec(0, 0, 0) /\ ltPc = "new"

LightNext == CallCalculateLighting

LightSpec == LightInit /\ [][LightNext]_vars

\* ------------------------------------------- Renderer.DrawMesh, the colours
\* Triangle.Normal: the normalised cross product of the two edges, (0,1,0)
\* for a degenerate triangle.
Normal(tri) ==
  LET c == Cross(VSub(tri.V1, tri.V0), VSub(tri.V2, tri.V0))
      normal == FVec(c[1], c[2], c[3])
  IN IF FLength(normal) = Num(0) THEN FVec(0, 1, 0) ELSE Normalize(normal)

\* Triangle.Center: (V0 + V1 + V2) scaled by 1/3.
Center(tri) ==
  LET sum == CenterTimes3(tri)
  IN FScale(FVec(sum[1], sum[2], sum[3]), Norm(1, 3))

\* The light the drawing renderer is given, and the colours meshes are
\* drawn with.
DrawLight ==
  NewLight(<<Norm(1, 3), Norm(1, 3), Num(0)>>, Color(10, 10, 10), Tenths(5))
DrawColors == {Color(10, 5, 0), Color(2, 4, 10)}

\* DrawMeshWithGradient, lines 361-366: t := (avgDepth + 1.0) / 2.0 and each
\* channel color1*(1-t) + color2*t.
GradientColor(tri, color1, color2) ==
  LET t == FDiv(FAdd(Norm(AvgDepth(tri)[1], AvgDepth(tri)[2]), Num(1)), Num(2))
  IN [ch \in 1..3 |->
        FAdd(FMul(color1[ch], FSub(Num(1), t)), FMul(color2[ch], t))]

\* One call r.CalculateLighting(center, normal, color) of drawShaded for
\* triangle i of the mesh, with its result.
LitCall(lights, mesh, i, color) ==
  [i |-> i, position |-> Center(mesh[i]), normal |-> Normal(mesh[i]),
   baseColor |-> color,
   result |-> CalculateLighting(lights, Center(mesh[i]), Normal(mesh[i]),
                                color)]

\* One MoveTo/LineTo/LineTo/ClosePath followed by Stroke or Fill, with the
\* source colour in effect.
DrawOp(op, mesh, i, color) ==
  [op |-> op, i |-> i, tri |-> mesh[i], depth |-> AvgDepth(mesh[i]),
   color |-> color]

drawRest == <<pipeVars, sceneVars, camVars, meshVars,
    lightVars, normVars, primVars>>

\* Mesh.AddTriangle.
AddTriangle(tri) ==
  /\ drMode = "none" /\ Len(drMesh) < MaxTris
  /\ drMesh' = Append(drMesh, tri)
  /\ UNCHANGED <<drMode, drOps, drLights, drColor, drLit, drawRest>>

\* Renderer.AddLight on the drawing renderer.
DrawAddLight ==
  /\ drMode = "none" /\ Len(drLights) < MaxLights
  /\ drLights' = Append(drLights, DrawLight)
  /\ UNCHANGED <<drMesh, drMode, drOps, drColor, drLit, drawRest>>

\* DrawMesh in RenderWireframe mode: drawWireframe strokes the triangles
\* inside the depth range in mesh order.
DrawWireframe(color) ==
  /\ drMode = "none"
  /\ drMode' = "wireframe"
  /\ drColor' = <<color>>
  /\ LET kept == Kept(drMesh, "wireframe", {})
     IN drOps' = [k \in 1..Len(kept) |->
                    DrawOp("stroke", drMesh, kept[k], color)]
  /\ UNCHANGED <<drMesh, drLights, drLit, drawRest>>

\* DrawMesh in RenderFlat mode: drawFlat.
DrawFlat(color) ==
  /\ drMode = "none"
  /\ drMode' = "flat"
  /\ drColor' = <<color>>
  /\ \E order \in SortedOrders(drMesh, Kept(drMesh, "flat", {})) :
       drOps' = [k \in 1..Len(order) |->
                   DrawOp("fill", drMesh, order[k], color)]
  /\ UNCHANGED <<drMesh, drLights, drLit, drawRest>>

\* DrawMesh in RenderShaded mode: drawShaded.  The loop over mesh.Triangles
\* calls CalculateLighting for each triangle it keeps, then the kept
\* triangles are sorted and filled with their lit colours.
DrawShaded(color) ==
  /\ drMode = "none"
  /\ drMode' = "shaded"
  /\ drColor' = <<color>>
  /\ \E down \in Roundings(drMesh) :
       LET kept == Kept(drMesh, "shaded", down)
       IN /\ drLit' = [k \in 1..Len(kept) |->
                         LitCall(drLights, drMesh, kept[k], color)]
          /\ \E order \in SortedOrders(drMesh, kept) :
               drOps' = [k \in 1..Len(order) |->
                           DrawOp("fill", drMesh, order[k],
                                  LitCall(drLights, drMesh, order[k],
                                          color).result)]
  /\ UNCHANGED <<drMesh, drLights, drawRest>>

\* DrawMeshWithGradient.
DrawMeshWithGradient(color1, color2) ==
  /\ drMode = "none"
  /\ drMode' = "gradient"
  /\ drColor' = <<color1, color2>>
  /\ \E order \in SortedOrders(drMesh, Kept(drMesh, "gradient", {})) :
       drOps' = [k \in 1..Len(order) |->
                   DrawOp("fill", drMesh, order[k],
                          GradientColor(drMesh[order[k]], color1, color2))]
  /\ UNCHANGED <<drMesh, drLights, drLit, drawRest>>

DrawInit == PipelineAtRest /\ LibNew

DrawNext ==
  \/ \E tri \in TriangleSet : AddTriangle(tri)
  \/ DrawAddLight
  \/ \E color \in DrawColors : DrawWireframe(color)
  \/ \E color \in DrawColors : DrawFlat(color)
  \/ \E color \in DrawColors : DrawShaded(color)
  \/ \E color1 \in DrawColors :
       \E color2 \in DrawColors \ {color1} :
         DrawMeshWithGradient(color1, color2)

DrawSpec == DrawInit /\ [][DrawNext]_vars

\* ------------------------------------------------- primitive generators
\* The counts a generator is called with: negative, zero and positive.
MaxCount == 4
Counts == (0 - 2)..MaxCount

\* Number of iterations of for i := 0; i < n; i++.
Iterations(n) == IF n < 0 THEN 0 ELSE n

\* mesh.Vertices[k]: the element at the 0-based index k; an index outside the
\* slice panics.
OutOfRange == "index out of range"
At(vertices, k) ==
  IF k >= 0 /\ k < Len(vertices) THEN vertices[k + 1] ELSE OutOfRange

\* Some triangle was built from an index outside the vertex list.
Panics(triangles) ==
  \E k \in 1..Len(triangles) :
    OutOfRange \in {triangles[k].V0, triangles[k].V1, triangles[k].V2}

\* The vertices the loops for i := 0; i <= outer; i++ { for j := 0; j <=
\* inner; j++ { AddVertex } } add; a vertex is named by its loop indices.
GridVertices(outer, inner) ==
  LET Row(i) == [j \in 1..Iterations(inner + 1) |-> <<i, j - 1>>]
      F[n \in 0..Iterations(outer + 1)] ==
        IF n = 0 THEN <<>> ELSE F[n - 1] \o Row(n - 1)
  IN F[Iterations(outer + 1)]

\* The two triangles CreateSphere and CreateTorus add for the cell (i, j).
GridCell(vertices, inner, i, j) ==
  LET first == i * (inner + 1) + j
      second == first + inner + 1
  IN << Tri(At(vertices, first), At(vertices, second),
            At(vertices, first + 1)),
        Tri(At(vertices, second), At(vertices, second + 1),
            At(vertices, first + 1)) >>

\* for i := 0; i < outer; i++ { for j := 0; j < inner; j++ { two triangles } }
GridTriangles(vertices, outer, inner) ==
  LET Row(i) ==
        LET G[m \in 0..Iterations(inner)] ==
              IF m = 0 THEN <<>>
              ELSE G[m - 1] \o GridCell(vertices, inner, i, m - 1)
        IN G[Iterations(inner)]
      F[n \in 0..Iterations(outer)] ==
        IF n = 0 THEN <<>> ELSE F[n - 1] \o Row(n - 1)
  IN F[Iterations(outer)]

\* A sphere whose vertex loops stop one short (ring < rings, seg < segments).
SphereVerticesShort(segments, rings) == GridVertices(rings - 1, segments - 1)

\* CreateSphere, lines 109-124: the vertex loops over ring and seg.
SphereVertices(segments, rings) == GridVertices(rings, segments)

\* CreateSphere.
CreateSphere(segments, rings) ==
  LET vertices == SphereVertices(segments, rings)
  IN [Vertices |-> vertices,
      Triangles |-> GridTriangles(vertices, rings, segments)]

\* CreateTorus.
CreateTorus(majorSegments, minorSegments) ==
  LET vertices == GridVertices(majorSegments, minorSegments)
  IN [Vertices |-> vertices,
      Triangles |-> GridTriangles(vertices, majorSegments, minorSegments)]

\* CreateCube: 8 vertices (the signs of their coordinates) and the index
\* table of the 12 triangles.
CubeVertices ==
  << <<0 - 1, 0 - 1, 0 - 1>>, <<1, 0 - 1, 0 - 1>>, <<1, 1, 0 - 1>>,
     <<0 - 1, 1, 0 - 1>>, <<0 - 1, 0 - 1, 1>>, <<1, 0 - 1, 1>>, <<1, 1, 1>>,
     <<0 - 1, 1, 1>> >>
CubeIndices ==
  << <<0, 1, 2>>, <<0, 2, 3>>, <<5, 4, 7>>, <<5, 7, 6>>, <<4, 0, 3>>,
     <<4, 3, 7>>, <<1, 5, 6>>, <<1, 6, 2>>, <<3, 2, 6>>, <<3, 6, 7>>,
     <<4, 5, 1>>, <<4, 1, 0>> >>
CreateCube ==
  [Vertices |-> <<>>,
   Triangles |-> [k \in 1..Len(CubeIndices) |->
                    Tri(At(CubeVertices, CubeIndices[k][1]),
                        At(CubeVertices, CubeIndices[k][2]),
                        At(CubeVertices, CubeIndices[k][3]))]]

\* CreateCylinder: for each i in 0..segments a top and a bottom vertex; two
\* side triangles per segment, then a top and a bottom cap triangle per
\* segment.
CreateCylinder(segments) ==
  LET V[n \in 0..Iterations(segments + 1)] ==
        IF n = 0 THEN <<>>
        ELSE V[n - 1] \o << <<"top", n - 1>>, <<"bottom", n - 1>> >>
      vertices == V[Iterations(segments + 1)]
      topIdx(i) == i * 2
      bottomIdx(i) == i * 2 + 1
      nextTopIdx(i) == ((i + 1) * 2) % ((segments + 1) * 2)
      nextBottomIdx(i) == ((i + 1) * 2 + 1) % ((segments + 1) * 2)
      Side[n \in 0..Iterations(segments)] ==
        IF n = 0 THEN <<>>
        ELSE Side[n - 1] \o
             << Tri(At(vertices, topIdx(n - 1)), At(vertices, bottomIdx(n - 1)),
                    At(vertices, nextTopIdx(n - 1))),
                Tri(At(vertices, bottomIdx(n - 1)),
                    At(vertices, nextBottomIdx(n - 1)),
                    At(vertices, nextTopIdx(n - 1))) >>
      Caps[n \in 0..Iterations(segments)] ==
        IF n = 0 THEN <<>>
        ELSE Caps[n - 1] \o
             << Tri("topCenter", At(vertices, topIdx(n - 1)),
                    At(vertices, nextTopIdx(n - 1))),
                Tri("bottomCenter", At(vertices, nextBottomIdx(n - 1)),
                    At(vertices, bottomIdx(n - 1))) >>
  IN [Vertices |-> vertices,
      Triangles |-> Side[Iterations(segments)] \o Caps[Iterations(segments)]]

\* CreatePlane: (subdivisions+1)^2 vertices, two triangles per cell.
CreatePlane(subdivisions) ==
  LET vertices == GridVertices(subdivisions, subdivisions)
      Cell(i, j) ==
        LET idx == i * (subdivisions + 1) + j
        IN << Tri(At(vertices, idx), At(vertices, idx + subdivisions + 1),
                  At(vertices, idx + 1)),
              Tri(At(vertices, idx + 1), At(vertices, idx + subdivisions + 1),
                  At(vertices, idx + subdivisions + 2)) >>
      Row(i) ==
        LET G[m \in 0..Iterations(subdivisions)] ==
              IF m = 0 THEN <<>> ELSE G[m - 1] \o Cell(i, m - 1)
        IN G[Iterations(subdivisions)]
      F[n \in 0..Iterations(subdivisions)] ==
        IF n = 0 THEN <<>> ELSE F[n - 1] \o Row(n - 1)
  IN [Vertices |-> vertices, Triangles |-> F[Iterations(subdivisions)]]

\* CreateCone: segments+1 vertices on the base circle; a side triangle per
\* segment, then a base triangle per segment.
CreateCone(segments) ==
  LET vertices == [n \in 1..Iterations(segments + 1) |-> <<"base", n - 1>>]
      Side[n \in 0..Iterations(segments)] ==
        IF n = 0 THEN <<>>
        ELSE Append(Side[n - 1],
                    Tri("apex", At(vertices, n - 1),
                        At(vertices, n % (segments + 1))))
      Base[n \in 0..Iterations(segments)] ==
        IF n = 0 THEN <<>>
        ELSE Append(Base[n - 1],
                    Tri("bottomCenter", At(vertices, n % (segments + 1)),
                        At(vertices, n - 1)))
  IN [Vertices |-> vertices,
      Triangles |-> Side[Iterations(segments)] \o Base[Iterations(segments)]]

primRest == <<pipeVars, sceneVars, drawVars, camVars, meshVars, lightVars,
              normVars>>

\* The return of a generator: the mesh is returned unless an index was out
\* of range, which ends the call in a panic.
Returns(kind, counts, mesh) ==
  /\ prCall' = [kind |-> kind, counts |-> counts]
  /\ IF Panics(mesh.Triangles)
       THEN prPc' = "panic" /\ UNCHANGED prMesh
       ELSE prPc' = "done" /\ prMesh' = mesh
  /\ UNCHANGED primRest

CallCreateCube ==
  /\ prPc = "new"
  /\ Returns("cube", <<>>, CreateCube)

CallCreateSphere(segments, rings) ==
  /\ prPc = "new"
  /\ Returns("sphere", <<segments, rings>>, CreateSphere(segments, rings))

CallCreateCylinder(segments) ==
  /\ prPc = "new"
  /\ Returns("cylinder", <<segments>>, CreateCylinder(segments))

CallCreatePlane(subdivisions) ==
  /\ prPc = "new"
  /\ Returns("plane", <<subdivisions>>, CreatePlane(subdivisions))

CallCreateCone(segments) ==
  /\ prPc = "new"
  /\ Returns("cone", <<segments>>, CreateCone(segments))

CallCreateTorus(majorSegments, minorSegments) ==
  /\ prPc = "new"
  /\ Returns("torus", <<majorSegments, minorSegments>>,
             CreateTorus(majorSegments, minorSegments))

PrimInit == PipelineAtRest /\ LibNew

PrimNext ==
  \/ CallCreateCube
  \/ \E segments, rings \in Counts : CallCreateSphere(segments, rings)
  \/ \E segments \in Counts : CallCreateCylinder(segments)
  \/ \E subdivisions \in Counts : CallCreatePlane(subdivisions)
  \/ \E segments \in Counts : CallCreateCone(segments)
  \/ \E major, minor \in Counts : CallCreateTorus(major, minor)

PrimSpec == PrimInit /\ [][PrimNext]_vars

\* ------------------------------------------------------------------ claims
\* Value of a sequence of decimal digits.
RECURSIVE DigitsValue(_)
DigitsValue(d) ==
  IF d = <<>> THEN 0 ELSE 10 * DigitsValue(SubSeq(d, 1, Len(d) - 1)) + d[Len(d)]

\* name is frame_<i zero-padded to 4 digits>.png
IsFrameFile(name, i) ==
  /\ name.prefix = "frame_" /\ name.ext = ".png"
  /\ Len(name.num) = 4
  /\ \A j \in 1..4 : name.num[j] \in 0..9
  /\ DigitsValue(name.num) = i

\* the fraction t equals (i-1)/n
IsTimeOf(t, i, n) == t[1] * n = (i - 1) * t[2] /\ t[2] > 0

\* Directory the frames of the current call go to.
RunDir == IF api = "FramesOnly" THEN outputDir ELSE Config.TempDir

\* Frames whose SaveToPNG was called in this run but whose file was not written.
FailedFrames == {x[1] : x \in BagToSet(saves)} \ {x[1] : x \in written}

WorkersDone == \A w \in WorkerIds : wpc[w] \in {"off", "done"}

\* C1: when GenerateFrames returns and neither the directory creation nor any
\* frame save failed, the callback has run exactly once for each frame 1..N
\* with t = (i-1)/N and the file frame_<i, 4 digits>.png is in the temp
\* directory; the callback never runs for an index outside 1..N and t < 1.
C1_AllFramesOnce ==
  /\ \A c \in BagToSet(calls) :
       /\ c[1] \in 1..totalFrames
       /\ CopiesIn(c, calls) = 1
       /\ IsTimeOf(c[2], c[1], totalFrames)
       /\ c[2][1] < c[2][2]
  /\ (pc = "gf_ret" /\ ~runFailed /\ gfErr.kind # "mkdir") =>
       /\ gfErr = Nil
       /\ \A i \in 1..totalFrames :
            /\ \E c \in BagToSet(calls) : c[1] = i
            /\ \E x \in files :
                 /\ x[1] = RunDir /\ IsFrameFile(x[2], i)
                 /\ <<i, x>> \in written

C1_Witness ==
  /\ pc = "gf_ret" /\ ~runFailed /\ gfErr = Nil
  /\ RunMode = "multi" /\ totalFrames = 2
  /\ Cardinality(written) = 2

\* C2 (as stated): the frame count is FPS*Duration rounded to the nearest
\* integer; stated for the non-negative frame rates, where the direction in
\* which a half is rounded is not in question.
C2_Stated ==
  (runs > 0 /\ pc # "gf_entry" /\ gfErr.kind # "mkdir" /\ Config.FPS >= 0) =>
    totalFrames = RoundFrames(Config.FPS, Config.DurQ)

\* C2 (amended): the frame count is FPS*Duration truncated toward zero: it
\* has the sign of the product and |N| is the largest integer not above
\* |FPS*Duration|.
C2_Truncates ==
  (runs > 0 /\ pc # "gf_entry" /\ gfErr.kind # "mkdir") =>
    LET p == Config.FPS * Config.DurQ
    IN /\ totalFrames * p >= 0
       /\ Abs(totalFrames) * DurDen <= Abs(p)
       /\ Abs(p) < (Abs(totalFrames) + 1) * DurDen

C2_Witness ==
  /\ pc = "gf_ret" /\ gfErr = Nil
  /\ Config.FPS = 2 /\ Config.DurQ = 3 /\ totalFrames = 1

\* C3: for the same configuration, a run with Workers = 1 and a run with
\* Workers = K > 1 that returned nil with no failed write end with the same mapping from
\* frame index to (t, file name), the same file names and the same number of
\* files, which is the total frame count.
C3_SameResult ==
  (hist.single.set /\ hist.multi.set) =>
    /\ hist.single.map = hist.multi.map
    /\ hist.single.names = hist.multi.names
    /\ hist.single.n = hist.multi.n
    /\ hist.multi.n >= 0
    /\ Cardinality(hist.multi.names) = hist.multi.n
    /\ Cardinality(hist.single.names) = hist.single.n
    /\ Cardinality(hist.multi.map) = hist.multi.n

C3_Witness ==
  /\ hist.single.n = 2 /\ hist.multi.n = 2
  /\ Cardinality(hist.multi.names) = 2
  /\ Cardinality(hist.single.map) = 2

\* C4: in multi-worker mode each frame index is received from the job queue
\* at most once, no two workers hold the same frame, no frame is saved twice,
\* and the t and the file name used for an index are those of the index alone.
C4_EachFrameOneWorker ==
  RunMode = "multi" =>
    /\ \A f \in BagToSet(recvd) : CopiesIn(f, recvd) = 1
    /\ \A x \in BagToSet(saves) : CopiesIn(x, saves) = 1
    /\ \A x, y \in BagToSet(saves) : x[1] = y[1] => x = y
    /\ \A v, w \in WorkerIds :
         (v # w /\ wpc[v] = "save" /\ wpc[w] = "save") => wframe[v] # wframe[w]
    /\ \A c \in BagToSet(calls) : IsTimeOf(c[2], c[1], totalFrames)
    /\ \A x \in BagToSet(saves) : x[2][1] = RunDir /\ IsFrameFile(x[2][2], x[1])

C4_Witness ==
  /\ RunMode = "multi"
  /\ wpc[1] = "save" /\ wpc[2] = "save"
  /\ wframe[1] > wframe[2]

\* C5: Generate runs frame generation, then the encoder, then cleanup; an
\* error of frame generation is returned as it is with no encoder run and no
\* removal; an encoder failure is returned with the encoder's output and no
\* removal.
C5_StageOrder ==
  api = "Generate" =>
    /\ pc \in {"gf_entry", "st_loop", "st_save", "mt_spawn", "mt_dispatch",
               "mt_wait", "mt_done", "gf_ret", "compose"} =>
         encoderCalls = 0 /\ removeCalls = 0
    /\ pc = "compose" => gfErr = Nil
    /\ pc = "cleanup" => encoderCalls = 1 /\ removeCalls = 0 /\ videoMade
    /\ encoderCalls > 0 => gfErr = Nil
    /\ removeCalls > 0 => encoderCalls = 1 /\ videoMade
    /\ (pc = "idle" /\ gfErr # Nil) =>
         ret = gfErr /\ encoderCalls = 0 /\ removeCalls = 0
    /\ (pc = "idle" /\ encoderCalls > 0 /\ ~videoMade) =>
         /\ ret.kind = "ffmpeg" /\ ret.output = encoderOutput
         /\ encoderOutput \in EncoderOutputs
         /\ removeCalls = 0
         /\ \A x \in written : x[2] \in files

C5_Witness ==
  /\ api = "Generate" /\ pc = "idle"
  /\ encoderCalls = 1 /\ ~videoMade /\ ret.kind = "ffmpeg"
  /\ Config.CleanupTemp /\ written # {}

\* C6 (as stated): the encoder is started at most once per run, only when
\* every worker has terminated and every frame 1..N has been written, and no
\* frame is rendered or saved once it has started.
C6_Stated ==
  /\ encoderCalls <= 1
  /\ encoderCalls > 0 =>
       /\ WorkersDone
       /\ pc \in {"cleanup", "idle"}
       /\ \A i \in 1..totalFrames : FramePath(Config.TempDir, i) \in encoderSaw

\* C7 (as stated): when the write of a frame's file fails, GenerateFrames
\* returns an error that names that frame, and the save is not retried.
C7_Stated ==
  /\ \A x \in BagToSet(saves) : CopiesIn(x, saves) = 1
  /\ (pc = "gf_ret" /\ runFailed) =>
       gfErr.kind = "save" /\ gfErr.frame \in FailedFrames

\* C8 (as stated): in multi-worker mode a worker whose save failed reports an
\* error and takes no further job, the others go on, GenerateFrames returns
\* after all workers have finished and returns the first error reported.
C8_Stated ==
  RunMode = "multi" =>
    /\ Len(errors) = Cardinality(FailedFrames)
    /\ Cardinality({w \in WorkerIds : wpc[w] = "done"}) >= Cardinality(FailedFrames)
    /\ pc = "gf_ret" => WorkersDone
    /\ (pc = "gf_ret" /\ runFailed) =>
         errors # <<>> /\ gfErr = Head(errors) /\ gfErr.kind = "save"

\* C9: when main's ffmpeg probe fails, the encoder is never run, no video is
\* written, nothing is removed, the frames go to the frame directory, and the
\* run ends without an error unless the directory could not be created.
C9_ProbeAbsentSkipsVideo ==
  (viaMain /\ probe = "absent") =>
    /\ api = "FramesOnly"
    /\ encoderCalls = 0 /\ ~videoMade /\ removeCalls = 0
    /\ pc \notin {"compose", "cleanup"}
    /\ ret.kind \in {"nil", "mkdir"}
    /\ (pc = "idle" /\ gfErr.kind # "mkdir") =>
         /\ ret = Nil
         /\ \A i \in 1..totalFrames :
              ~runFailed => FramePath(MainOutputDir, i) \in files

C9_Witness ==
  /\ viaMain /\ probe = "absent" /\ pc = "idle"
  /\ ret = Nil /\ totalFrames = 2 /\ Cardinality(written) = 2

\* C10: GenerateFramesOnly never runs the encoder and never removes anything;
\* every frame it saves goes to outputDir, and none to the configured temp
\* directory.
C10_FramesOnlyNoEncoder ==
  api = "FramesOnly" =>
    /\ encoderCalls = 0 /\ removeCalls = 0 /\ ~videoMade
    /\ pc \notin {"compose", "cleanup"}
    /\ \A x \in BagToSet(saves) : x[2][1] = outputDir
    /\ \A x \in written :
         /\ x[2][1] = outputDir
         /\ x[2] \in files
         /\ x[2][1] # originalTempDir
    /\ (pc # "gf_entry" /\ gfErr.kind # "mkdir") => outputDir \in dirs

C10_Witness ==
  /\ api = "FramesOnly" /\ ~viaMain /\ pc = "idle"
  /\ outputDir = MainOutputDir /\ originalTempDir = DefaultTempDir
  /\ Cardinality(written) = 2 /\ ret = Nil

\* The last call was Generate and it has returned.
GenerateReturned == api = "Generate" /\ pc = "idle" /\ runs > 0

\* C11: a failure to remove the temp directory is not escalated: when frame
\* generation and composition succeeded, Generate returns nil even if the
\* removal failed (the directory is then still there, with the frames the
\* removal did not get to).
C11_CleanupFailureNotEscalated ==
  (GenerateReturned /\ removeFailed) =>
    /\ gfErr = Nil /\ videoMade /\ removeCalls = 1
    /\ ret = Nil
    /\ Config.TempDir \in dirs

C11_Witness ==
  /\ GenerateReturned /\ removeFailed /\ ret = Nil
  /\ Cardinality(written) = 2
  /\ Cardinality({x \in written : x[2] \in files}) = 1

\* C12: Generate attempts the removal of the temp directory exactly when
\* frame generation succeeded, the encoder succeeded and CleanupTemp is true;
\* in every other case no removal is attempted and the directory and the
\* frames written so far are left in place.
C12_RemovalIffAllSucceededAndCleanup ==
  /\ removeCalls \in {0, 1}
  /\ removeCalls = 1 =>
       api = "Generate" /\ gfErr = Nil /\ videoMade /\ Config.CleanupTemp
  /\ (GenerateReturned /\ gfErr = Nil /\ videoMade /\ Config.CleanupTemp) =>
       removeCalls = 1
  /\ (GenerateReturned /\ removeCalls = 0) =>
       /\ \A x \in written : x[2] \in files
       /\ gfErr.kind # "mkdir" => Config.TempDir \in dirs

C12_Witness ==
  /\ GenerateReturned /\ ~Config.CleanupTemp /\ videoMade /\ gfErr = Nil
  /\ removeCalls = 0 /\ Cardinality(written) = 2
  /\ Config.TempDir \in dirs

\* C13: when creating the temp directory fails, GenerateFrames returns that
\* error before the callback has run for any frame and before any worker has
\* been started, and Generate then runs neither the encoder nor the cleanup.
C13_MkdirFailureStopsEverything ==
  gfErr.kind = "mkdir" =>
    /\ calls = EmptyBag /\ saves = EmptyBag /\ recvd = EmptyBag
    /\ written = {} /\ live = {}
    /\ \A w \in WorkerIds : wpc[w] = "off"
    /\ ppc = "off"
    /\ pc \in {"gf_ret", "idle"}
    /\ encoderCalls = 0 /\ removeCalls = 0 /\ ~videoMade
    /\ pc = "idle" => ret = gfErr

C13_Witness ==
  /\ GenerateReturned /\ ret.kind = "mkdir"
  /\ Config.Workers = 2 /\ Config.CleanupTemp
  /\ TotalFramesOf(Config.FPS, Config.DurQ) = 2

\* C14: in single-worker mode the frames are rendered and saved strictly in
\* increasing index order on the calling goroutine: the callback for frame
\* i+1 does not run before frame i was saved and its surface released, and
\* after the first failed save no later frame is rendered.
C14_Stated ==
  (RunMode = "single" /\ pc # "idle") =>
    /\ \A w \in WorkerIds : wpc[w] = "off"
    /\ \A c \in BagToSet(calls) :
         \A i \in 1..(c[1] - 1) :
           /\ \E x \in BagToSet(saves) : x[1] = i
           /\ BagIn(i, released)
    /\ \A f \in FailedFrames :
         \A c \in BagToSet(calls) : c[1] <= f

\* C15: every drawing surface is created by the goroutine that processes a
\* frame, is used only by it for that frame, and is released exactly once
\* before that goroutine takes its next job; at no moment are there more live
\* surfaces than workers, and none is live when GenerateFrames has returned.
C15_SurfacesReleasedOnce ==
  /\ \A x \in live :
       /\ IF x[1] = 0
            THEN RunMode = "single" /\ pc = "st_save" /\ frame = x[2]
            ELSE /\ RunMode = "multi" /\ x[1] \in 1..Config.Workers
                 /\ wpc[x[1]] = "save" /\ wframe[x[1]] = x[2]
       /\ \A y \in live : (y[1] = x[1] \/ y[2] = x[2]) => y = x
       /\ ~BagIn(x[2], released)
  /\ Cardinality(live) <= EffectiveWorkers(Config.Workers)
  /\ \A f \in BagToSet(released) : CopiesIn(f, released) = 1
  /\ \A c \in BagToSet(calls) :
       BagIn(c[1], released) \/ (\E x \in live : x[2] = c[1])
  /\ \A f \in BagToSet(released) : \E c \in BagToSet(calls) : c[1] = f
  /\ pc \in {"gf_ret", "compose", "cleanup", "idle"} => live = {}

C15_Witness ==
  /\ RunMode = "multi" /\ pc = "gf_ret"
  /\ live = {} /\ BagToSet(released) = {1, 2}
  /\ BagCardinality(released) = 2

\* The Render calls Scene.Render has made once it has handled the background
\* (when done) and the first n objects.
ExpectedDrawn(bgDone, n) ==
  (IF bgDone /\ scBackground # "nil"
     THEN <<[kind |-> "background", who |-> scBackground, lights |-> scLights]>>
     ELSE <<>>)
  \o [i \in 1..n |-> [kind |-> "object", who |-> scObjects[i],
                      lights |-> scLights]]

\* C16: Scene.Render first replaces the renderer's lights by the scene's (the
\* lights added with Renderer.AddLight are no longer active), then renders
\* the background if one is set, then every object exactly once in insertion
\* order; no object is rendered before the background.
C16_SceneRenderOrder ==
  /\ scPc = "build" => scDrawn = <<>>
  /\ scPc # "build" => rLights = scLights
  /\ scPc = "background" => scDrawn = ExpectedDrawn(FALSE, 0)
  /\ scPc = "objects" => scDrawn = ExpectedDrawn(TRUE, scIdx - 1)
  /\ scPc = "done" => scDrawn = ExpectedDrawn(TRUE, Len(scObjects))

C16_Witness ==
  /\ scPc = "done"
  /\ rLightsBefore = <<"light1", "light2">> /\ scLights = <<"light2">>
  /\ rLights = <<"light2">>
  /\ scBackground = "gradient"
  /\ scObjects = <<"solarSystem", "coordSystem">>
  /\ Len(scDrawn) = 3

\* Indices of the triangles of drMesh that survive the culling of the
\* drawing that was made whatever the rounding of the dot product, and those
\* that survive it for some rounding.
Surviving ==
  {i \in 1..Len(drMesh) :
     /\ \A v \in {drMesh[i].V0, drMesh[i].V1, drMesh[i].V2} : v[3] >= -1
     /\ drMode = "shaded" => ~BackFacing(drMesh[i], TRUE)}

MaySurvive ==
  {i \in 1..Len(drMesh) :
     /\ \A v \in {drMesh[i].V0, drMesh[i].V1, drMesh[i].V2} : v[3] >= -1
     /\ drMode = "shaded" => ~BackFacing(drMesh[i], FALSE)}

\* Sum of the three depths of triangle i of drMesh (three times the average).
DepthSum(i) == drMesh[i].V0[3] + drMesh[i].V1[3] + drMesh[i].V2[3]

\* C17: in Flat, Shaded and gradient drawing the fills issued are a
\* permutation of the triangles that survive culling (each filled exactly
\* once; a triangle seen edge-on in Shaded drawing survives or not, as the
\* rounding of its dot product has it), and a triangle with a greater
\* average depth is filled strictly before one with a smaller average depth.
C17_FillsFarToNear ==
  drMode \in {"flat", "shaded", "gradient"} =>
    /\ \A k \in 1..Len(drOps) : drOps[k].op = "fill"
    /\ \A i \in Surviving :
         Cardinality({k \in 1..Len(drOps) : drOps[k].i = i}) = 1
    /\ \A i \in MaySurvive :
         Cardinality({k \in 1..Len(drOps) : drOps[k].i = i}) <= 1
    /\ \A k \in 1..Len(drOps) : drOps[k].i \in MaySurvive
    /\ \A k1, k2 \in 1..Len(drOps) :
         DepthSum(drOps[k1].i) > DepthSum(drOps[k2].i) => k1 < k2

C17_Witness ==
  /\ drMode = "shaded" /\ Len(drMesh) = 3
  /\ Len(drOps) = 2 /\ Cardinality(Surviving) = 2
  /\ drOps[1].i = 3 /\ drOps[2].i = 1
  /\ DepthSum(3) > DepthSum(1)
  /\ ~BackFacing(drMesh[2], FALSE) /\ drMesh[2].V1[3] < -1

\* The keyframes of the path are in order of time.
KeyframesOrdered ==
  \A i \in 1..(Len(camKeyframes) - 1) :
    FLeq(camKeyframes[i].Time, camKeyframes[i + 1].Time)

\* The camera has exactly the values of keyframe i.
CameraIsKeyframe(i) ==
  /\ camera.Position = camKeyframes[i].Position
  /\ camera.Target = camKeyframes[i].Target
  /\ camera.FOV = camKeyframes[i].FOV

\* C18: for an ordered sequence of keyframes and the default smoothing,
\* evaluating the path at t equal to a keyframe's time gives that keyframe's
\* values exactly, at t before the first keyframe the first keyframe's values
\* and at t after the last keyframe the last keyframe's values.
C18_Stated ==
  (camPc = "applied" /\ Len(camKeyframes) > 0 /\ KeyframesOrdered) =>
    /\ \A i \in 1..Len(camKeyframes) :
         camT = camKeyframes[i].Time => CameraIsKeyframe(i)
    /\ FLess(camT, camKeyframes[1].Time) => CameraIsKeyframe(1)
    /\ FLess(camKeyframes[Len(camKeyframes)].Time, camT) =>
         CameraIsKeyframe(Len(camKeyframes))

\* C19: Mesh.Transform returns a new mesh with as many vertices and
\* triangles as the receiver, in the same order, and leaves the receiver
\* unchanged; Mesh.Merge leaves its argument unchanged and makes the
\* receiver's sequences the previous elements followed by the argument's
\* elements in order, duplicates included.
C19_TransformAndMergeFrames ==
  /\ meshOp = "Transform" =>
       /\ meshM = meshMBefore /\ meshOther = meshOtherBefore
       /\ Len(meshOut.Vertices) = Len(meshM.Vertices)
       /\ Len(meshOut.Triangles) = Len(meshM.Triangles)
       /\ \A i \in 1..Len(meshM.Vertices) :
            meshOut.Vertices[i] = TransformVector(meshMatrix, meshM.Vertices[i])
       /\ \A i \in 1..Len(meshM.Triangles) :
            /\ meshOut.Triangles[i].V0
                 = TransformVector(meshMatrix, meshM.Triangles[i].V0)
            /\ meshOut.Triangles[i].V1
                 = TransformVector(meshMatrix, meshM.Triangles[i].V1)
            /\ meshOut.Triangles[i].V2
                 = TransformVector(meshMatrix, meshM.Triangles[i].V2)
  /\ meshOp = "Merge" =>
       /\ meshOther = meshOtherBefore
       /\ Len(meshM.Vertices)
            = Len(meshMBefore.Vertices) + Len(meshOther.Vertices)
       /\ Len(meshM.Triangles)
            = Len(meshMBefore.Triangles) + Len(meshOther.Triangles)
       /\ SubSeq(meshM.Vertices, 1, Len(meshMBefore.Vertices))
            = meshMBefore.Vertices
       /\ SubSeq(meshM.Vertices, Len(meshMBefore.Vertices) + 1,
                 Len(meshM.Vertices)) = meshOther.Vertices
       /\ SubSeq(meshM.Triangles, 1, Len(meshMBefore.Triangles))
            = meshMBefore.Triangles
       /\ SubSeq(meshM.Triangles, Len(meshMBefore.Triangles) + 1,
                 Len(meshM.Triangles)) = meshOther.Triangles

C19_Witness ==
  /\ meshOp = "Merge"
  /\ Len(meshMBefore.Vertices) = 2 /\ meshOther.Vertices = meshMBefore.Vertices
  /\ Len(meshMBefore.Triangles) = 1 /\ meshOther.Triangles = meshMBefore.Triangles
  /\ Len(meshM.Vertices) = 4 /\ Len(meshM.Triangles) = 2

\* max(0, normal . lightDirection) * intensity * lightColor[ch] of light k,
\* lightDirection being the unit vector from the lit position to the light.
LightTerm(k, ch) ==
  LET d == FVSub(ltLights[k].Position, ltArgs.position)
      len == FLength(d)
      cos == IF len = Num(0) THEN Num(0) ELSE FDiv(FDot(ltArgs.normal, d), len)
      pos == IF FLess(cos, Num(0)) THEN Num(0) ELSE cos
  IN FMul(FMul(pos, ltLights[k].Intensity), ltLights[k].Color[ch])

\* Sum of the terms of the lights 1..n.
LightSum(n, ch) ==
  LET S[i \in 0..n] == IF i = 0 THEN Num(0) ELSE FAdd(S[i - 1], LightTerm(i, ch))
  IN S[n]

\* (0.2 + sum of the light terms) * baseColor[ch].
Unclamped(ch) ==
  FMul(FAdd(Norm(1, 5), LightSum(Len(ltLights), ch)), ltArgs.baseColor[ch])

\* C20: CalculateLighting returns baseColor unmodified when there are no
\* lights; otherwise each channel is min(1.0, (0.2 + sum over the lights of
\* max(0, normal . lightDirection) * intensity * lightColor[ch])
\* * baseColor[ch]), so no returned channel exceeds 1.0.
C20_LightingFormula ==
  ltPc = "done" =>
    /\ Len(ltLights) = 0 => ltResult = ltArgs.baseColor
    /\ Len(ltLights) > 0 =>
         \A ch \in 1..3 :
           /\ ltResult[ch] = IF FLess(Num(1), Unclamped(ch))
                               THEN Num(1) ELSE Unclamped(ch)
           /\ ~FLess(Num(1), ltResult[ch])

C20_Witness ==
  /\ ltPc = "done" /\ Len(ltLights) = 2
  /\ FLess(Num(1), Unclamped(1)) /\ ltResult[1] = Num(1)
  /\ FLess(Unclamped(2), Num(1)) /\ ltResult[2] = Unclamped(2)
  /\ FLess(Norm(1, 5), ltResult[2])

\* All three projected depths of triangle i of drMesh lie in [-1, 1].
InDepthRange(i) ==
  \A v \in {drMesh[i].V0, drMesh[i].V1, drMesh[i].V2} : v[3] >= -1 /\ v[3] <= 1

\* C22: Flat and Shaded mode apply the z-range cull of Wireframe: a triangle
\* with a vertex whose projected z is below -1 or above 1 is never filled.
C22_Stated ==
  drMode \in {"flat", "shaded"} =>
    \A k \in 1..Len(drOps) : InDepthRange(drOps[k].i)

\* C23: in Wireframe mode a triangle is stroked exactly when its three
\* projected depths lie in [-1, 1]; the strokes come in mesh order, one per
\* such triangle, and a culled triangle contributes nothing.
C23_WireframeStrokes ==
  drMode = "wireframe" =>
    /\ \A k \in 1..Len(drOps) :
         /\ drOps[k].op = "stroke"
         /\ drOps[k].tri = drMesh[drOps[k].i]
         /\ InDepthRange(drOps[k].i)
    /\ \A k1, k2 \in 1..Len(drOps) : k1 < k2 => drOps[k1].i < drOps[k2].i
    /\ \A i \in 1..Len(drMesh) :
         InDepthRange(i) => \E k \in 1..Len(drOps) : drOps[k].i = i

C23_Witness ==
  /\ drMode = "wireframe" /\ Len(drMesh) = 3
  /\ \E v \in {drMesh[1].V0, drMesh[1].V1, drMesh[1].V2} : v[3] > 1
  /\ InDepthRange(2)
  /\ \E v \in {drMesh[3].V0, drMesh[3].V1, drMesh[3].V2} : v[3] < -1
  /\ Len(drOps) = 1 /\ drOps[1].i = 2

\* Fills issued for triangle i of drMesh.
FillsOf(i) == {k \in 1..Len(drOps) : drOps[k].i = i}

\* Calls of CalculateLighting made for triangle i of drMesh.
LitCallsOf(i) == {k \in 1..Len(drLit) : drLit[k].i = i}

\* None of the three projected depths of triangle i is below -1.
NotBehindNear(i) ==
  \A v \in {drMesh[i].V0, drMesh[i].V1, drMesh[i].V2} : v[3] >= -1

\* The dot product of the normal of triangle i with the direction from its
\* centre to the camera at the origin; both are taken up to their positive
\* lengths: edge1 x edge2 and -(V0 + V1 + V2).
FacingDot(i) ==
  LET tri == drMesh[i]
      n == Cross(VSub(tri.V1, tri.V0), VSub(tri.V2, tri.V0))
      toCamera == VSub(<<0, 0, 0>>, VAdd(VAdd(tri.V0, tri.V1), tri.V2))
  IN Dot(n, toCamera)

\* Triangle i faces away from the camera.
FacesAway(i) == FacingDot(i) < 0

\* The plane of triangle i holds the camera: the exact dot product is 0, and
\* the sign of the computed one is a matter of rounding.
SeenEdgeOn(i) == FacingDot(i) = 0 /\ EdgeOn(drMesh[i])

\* Triangle i was lit once, at its centroid with its normal and the mesh
\* colour, and filled once with the result.
LitAndFilledOnce(i) ==
  /\ Cardinality(LitCallsOf(i)) = 1
  /\ Cardinality(FillsOf(i)) = 1
  /\ \A k \in LitCallsOf(i) :
       /\ drLit[k].position = Center(drMesh[i])
       /\ drLit[k].normal = Normal(drMesh[i])
       /\ drLit[k].baseColor = drColor[1]
       /\ drLit[k].result =
            CalculateLighting(drLights, Center(drMesh[i]),
                              Normal(drMesh[i]), drColor[1])
       /\ \A f \in FillsOf(i) : drOps[f].color = drLit[k].result

\* C24: in Shaded mode a triangle facing away from the camera is discarded:
\* no lighting is computed for it and it is never filled; for every surviving
\* triangle CalculateLighting is called exactly once, at its centroid with
\* its normal and the mesh colour, and the result is its fill colour.  A
\* triangle seen edge-on is one or the other, as the rounding of its dot
\* product has it.  Flat and gradient drawing make no lighting call and fill
\* the triangles facing away too, with the mesh colour and the depth
\* gradient.
C24_ShadedCullsAndLights ==
  /\ drMode = "shaded" =>
       \A i \in 1..Len(drMesh) :
         IF FacesAway(i) \/ ~NotBehindNear(i)
           THEN FillsOf(i) = {} /\ LitCallsOf(i) = {}
         ELSE IF SeenEdgeOn(i)
           THEN \/ FillsOf(i) = {} /\ LitCallsOf(i) = {}
                \/ LitAndFilledOnce(i)
         ELSE LitAndFilledOnce(i)
  /\ drMode \in {"flat", "gradient"} =>
       /\ drLit = <<>>
       /\ \A i \in 1..Len(drMesh) :
            NotBehindNear(i) => Cardinality(FillsOf(i)) = 1
       /\ \A k \in 1..Len(drOps) :
            drOps[k].color =
              IF drMode = "flat" THEN drColor[1]
              ELSE GradientColor(drOps[k].tri, drColor[1], drColor[2])

\* A shaded drawing with a light, of a mesh with a triangle facing away and a
\* triangle facing the camera whose lit colour differs from the mesh colour.
C24_Witness ==
  /\ drMode = "shaded" /\ Len(drLights) = 1 /\ Len(drMesh) = 2
  /\ FacesAway(1) /\ NotBehindNear(1)
  /\ ~FacesAway(2) /\ NotBehindNear(2)
  /\ Len(drLit) = 1 /\ Len(drOps) = 1
  /\ drOps[1].i = 2 /\ drOps[1].color # drColor[1]

\* C21 as stated: a vector whose length is below the threshold normalises to
\* the zero vector without a division by the length, and every vector whose
\* length is at least the threshold normalises to a vector of length 1.
C21_Stated ==
  nzPc = "done" =>
    /\ FLength(nzV) = Num(0) => nzOut = FVec(0, 0, 0) /\ nzDivs = <<>>
    /\ FLess(Num(0), FLength(nzV)) => FLength(nzOut) = Num(1)

\* C21, amended: a vector whose length is below the threshold normalises to
\* the zero vector without a division by the length, and every vector whose
\* length is finite and at least the threshold normalises to a vector of
\* length 1; for an infinite length the result has a NaN component or is
\* the zero vector, and its length is not 1.
C21_NormalizeFinite ==
  nzPc = "done" =>
    /\ FLength(nzV) = Num(0) => nzOut = FVec(0, 0, 0) /\ nzDivs = <<>>
    /\ FLess(Num(0), FLength(nzV)) /\ FLength(nzV)[2] # 0 =>
         /\ FLength(nzOut) = Num(1)
         /\ nzDivs = <<FLength(nzV)>>
    /\ FLength(nzV) = <<1, 0>> => FLength(nzOut) # Num(1)

C21_Witness ==
  /\ nzPc = "done" /\ nzV = FVec(2, 0 - 1, 2)
  /\ nzOut = <<Norm(2, 3), Norm(0 - 1, 3), Norm(2, 3)>>
  /\ nzDivs = <<Num(3)>>

\* No goroutine of generateFramesMultiThread is at a send on a full channel.
NoSendBlocks ==
  /\ pc = "mt_dispatch" /\ frame <= totalFrames => Len(jobs) < totalFrames
  /\ \A w \in WorkerIds :
       wpc[w] = "save" =>
         /\ progress < totalFrames
         /\ Len(errors) < EffectiveWorkers(Config.Workers)

\* Outside generateFramesMultiThread no worker and no progress goroutine runs.
NoneLeftRunning ==
  pc \notin {"mt_spawn", "mt_dispatch", "mt_wait", "mt_done"} =>
    /\ \A w \in WorkerIds : wpc[w] \in {"off", "done"}
    /\ ppc \in {"off", "exit"}

\* C25: a multi-worker GenerateFrames with N >= 0 frames always returns: no
\* send ever finds its channel full, and once the goroutines are started the
\* call reaches its return with every worker and the progress goroutine
\* exited; none runs after the return.
C25_MultiThreadTerminates ==
  /\ [](NoSendBlocks /\ NoneLeftRunning)
  /\ (pc = "mt_dispatch") ~>
       (/\ pc = "gf_ret"
        /\ \A w \in WorkerIds : wpc[w] \in {"off", "done"}
        /\ ppc = "exit")

C25_Witness ==
  /\ pc = "gf_ret" /\ EffectiveWorkers(Config.Workers) >= 2
  /\ totalFrames >= 2 /\ completed = totalFrames
  /\ \A w \in WorkerIds : wpc[w] = "done"
  /\ ppc = "exit" /\ jobs = <<>> /\ jobsClosed /\ progressClosed
  /\ runFailed

\* The last call of the client was GenerateFramesOnly and it has returned.
FramesOnlyReturned == pc = "idle" /\ api = "FramesOnly" /\ runs > 0

\* C26: after GenerateFramesOnly has returned, Config.CleanupTemp has the
\* value it had when the call was made, so that a Generate that follows on a
\* configuration with CleanupTemp = true and succeeds has removed its
\* temporary directory.
C26_Stated ==
  /\ FramesOnlyReturned => Config.CleanupTemp = cleanupAtCall
  /\ (/\ pc = "idle" /\ api = "Generate" /\ ~viaMain /\ ret = Nil
      /\ cleanupAtCall) => removeCalls = 1

\* C27: after GenerateFramesOnly has returned, with nil or with an error,
\* Config.TempDir is the directory it was before the call (and so it is when
\* a panic has left the call); while the call runs TempDir is outputDir and
\* every frame is saved under outputDir.
C27_TempDirRestored ==
  /\ (FramesOnlyReturned \/ (api = "FramesOnly" /\ pc = "panic")) =>
       Config.TempDir = originalTempDir /\ Config.TempDir = DefaultTempDir
  /\ api = "FramesOnly" /\ pc \notin {"idle", "panic"} =>
       Config.TempDir = outputDir
  /\ api = "FramesOnly" /\ pc # "idle" =>
       \A x \in BagToSet(saves) : x[2] = FramePath(outputDir, x[1])

C27_Witness ==
  /\ FramesOnlyReturned /\ ~viaMain /\ runs = 2
  /\ outputDir # DefaultTempDir /\ Config.TempDir = DefaultTempDir
  /\ ret = Nil /\ \E f \in 1..totalFrames : <<f, FramePath(outputDir, f)>> \in written

\* Frames the single-threaded loop has handed to the callback so far.
FramesRendered ==
  IF pc = "st_save" THEN frame ELSE IF frame > 0 THEN frame - 1 ELSE 0

\* The run is the single-threaded loop: no channel is used, no worker and no
\* progress goroutine exists, and the callback got the frames 1, 2, ... in
\* that order, each once, with the t of its index, on the calling goroutine.
SingleThreadRun ==
  /\ pc \notin {"mt_spawn", "mt_dispatch", "mt_wait", "mt_done", "panic"}
  /\ \A w \in WorkerIds : wpc[w] = "off"
  /\ ppc = "off"
  /\ jobs = <<>> /\ ~jobsClosed /\ errors = <<>> /\ progress = 0
  /\ recvd = EmptyBag
  /\ BagToSet(calls) =
       {<<f, NormTime(f, totalFrames)>> : f \in 1..FramesRendered}
  /\ \A x \in BagToSet(calls) : CopiesIn(x, calls) = 1
  /\ \A x \in live : x[1] = 0

\* C28: a run with Config.Workers below 1 is the run with Config.Workers = 1:
\* the single-threaded loop, without worker goroutines, frames in index order.
C28_WorkersBelowOneIsSingle ==
  (runs > 0 /\ ~viaMain /\ Config.Workers <= 1) => SingleThreadRun

C28_Witness ==
  /\ runs > 0 /\ ~viaMain /\ Config.Workers < 0
  /\ pc = "st_save" /\ frame = 2 /\ totalFrames = 2
  /\ {x[1] : x \in BagToSet(calls)} = {1, 2}

\* C29: the renderer the callback gets for a frame is a new one in the state
\* of NewRenderer (NewCamera, no lights, wireframe mode, nothing drawn), and
\* what it holds after the callback is what the callback of that frame alone
\* made of it: the camera of the time of that frame and the three drawings
\* of its own scene; in the single-threaded loop and in the workers.
C29_FreshRendererPerFrame ==
  /\ DOMAIN rstate = live
  /\ \A id \in live :
       LET t == NormTime(id[2], totalFrames)
       IN /\ rstate[id].given.Camera.Position = FVec(0, 0, 0 - 5)
          /\ rstate[id].given.Camera.Target = FVec(0, 0, 0)
          /\ rstate[id].given.Camera.Up = FVec(0, 1, 0)
          /\ rstate[id].given.Camera.FOV = Num(1)
          /\ rstate[id].given.Lights = <<>>
          /\ rstate[id].given.RenderMode = "wireframe"
          /\ rstate[id].given.Drawn = <<>>
          /\ rstate[id].now.Camera.Position = Rotated(<<0, 0, 20>>, t)
          /\ rstate[id].now.RenderMode = "shaded"
          /\ Len(rstate[id].now.Drawn) = 3
          /\ \A i \in 1..3 : rstate[id].now.Drawn[i].t = FMul(t, Num(3))

\* Two workers hold the renderers of two frames, each as its callback left
\* it, the cameras at different places.
C29_Witness ==
  /\ Cardinality(live) = 2
  /\ \E a, b \in live :
       /\ a[2] = 1 /\ b[2] = 2
       /\ rstate[a].now.Camera.Position = FVec(0, 0, 20)
       /\ rstate[b].now.Camera.Position # rstate[a].now.Camera.Position
       /\ rstate[a].now.RenderMode = "shaded"
       /\ rstate[a].given = rstate[b].given

\* The number of triangles the generator called is documented to emit.
ExpectedTriangles ==
  LET c == prCall.counts
  IN CASE prCall.kind = "sphere" -> 2 * c[2] * c[1]
       [] prCall.kind = "cylinder" -> 4 * c[1]
       [] prCall.kind = "cone" -> 2 * c[1]
       [] prCall.kind = "torus" -> 2 * c[1] * c[2]
       [] prCall.kind = "plane" -> 2 * c[1] * c[1]
       [] prCall.kind = "cube" -> 12

\* C30: for every count, zero and negative ones included, a primitive
\* generator reads no vertex outside the list it built (no call panics, and
\* every triangle vertex is a vertex of the list or a centre), and when all
\* its counts are at least 1 it returns 2*rings*segments (sphere),
\* 4*segments (cylinder), 2*segments (cone), 2*major*minor (torus),
\* 2*subdivisions^2 (plane) and 12 (cube) triangles.
C30_GeneratorsInRange ==
  /\ prPc # "panic"
  /\ prPc = "done" =>
       /\ \A k \in 1..Len(prMesh.Triangles) :
            OutOfRange \notin {prMesh.Triangles[k].V0, prMesh.Triangles[k].V1,
                               prMesh.Triangles[k].V2}
       /\ (\A n \in 1..Len(prCall.counts) : prCall.counts[n] >= 1) =>
            Len(prMesh.Triangles) = ExpectedTriangles
       /\ (\E n \in 1..Len(prCall.counts) : prCall.counts[n] < 1) =>
            prMesh.Triangles = <<>>

C30_Witness ==
  /\ prPc = "done" /\ prCall = [kind |-> "sphere", counts |-> <<3, 2>>]
  /\ Len(prMesh.Vertices) = 12 /\ Len(prMesh.Triangles) = 12
  /\ prMesh.Triangles[12].V1 = <<2, 3>>

====
